---- MODULE Spec2Model ----
(***************************************************************************)
(* A model of libpololu-jrk's settings object (setters, jrk_settings_fix,  *)
(* jrk_settings_to_string, jrk_settings_read_from_string) and of its       *)
(* variables object (jrk_get_variables, write_buffer_to_variables and the  *)
(* jrk_variables getters).                                                 *)
(*                                                                         *)
(* Text is modelled as a sequence of tokens, every token a string: a key,  *)
(* the separator ": ", a decimal digit, the sign "-", a symbolic name, a   *)
(* comment line body, or the newline "\n".                                 *)
(***************************************************************************)
EXTENDS Integers, Sequences, FiniteSets

VARIABLES
  settings,    \* the caller's jrk_settings object: field name -> value
  fixed,       \* TRUE while no setter ran since the last jrk_settings_fix
  nsets,       \* number of setter calls made so far
  warnings,    \* the caller's char * warnings variable
  string,      \* the caller's char * string variable (jrk_settings_to_string)
  parsed,      \* the caller's jrk_settings * variable (jrk_settings_read_from_string)
  error,       \* the jrk_error * returned by the last fallible settings call
  call,        \* the last library call and its arguments
  device,      \* the variables of the device: address -> bytes
  nupdates,    \* number of changes of the device's variables so far
  variables,   \* the caller's jrk_variables * variable
  verror,      \* the jrk_error * returned by the last jrk_get_variables
  vcall,       \* the last jrk_get_variables call, its arguments and effects
  ret,         \* what the getters returned for the caller's variables
  vcopy,       \* the last jrk_variables_copy call, its arguments and results
  jrk,         \* the settings the device holds: EEPROM, RAM, pending reload
  herror,      \* the jrk_error * returned by the last call on the handle
  hcall,       \* the last call on the handle, its arguments and what it sent
  ncommands,   \* number of calls made on the handle so far
  pid          \* a pid_constant_control: spinboxes, line edit, signals

svars == <<settings, fixed, nsets, warnings, string, parsed, error, call>>

vvars == <<device, nupdates, variables, verror, vcall, ret, vcopy>>

dvars == <<jrk, herror, hcall, ncommands, pid>>

vars == <<svars, vvars, dvars>>

\* ---------------------------------------------------------------- pointers

\* The null pointer, and a non-null pointer to the object v.
NULL == [null |-> TRUE]

Ptr(v) == [null |-> FALSE, at |-> v]

\* ---------------------------------------------------------------- bounds

\* The number of setter calls a behaviour may make.
MaxSets == 2

\* The number of times the device's variables change in a behaviour.
MaxUpdates == 2

\* The number of calls a behaviour may make on the handle.
MaxCommands == 3

\* ------------------------------------------------------- product constants

JRK_PRODUCT_UMC04A_30V == 1

JRK_PRODUCT_UMC04A_40V == 2

JRK_PRODUCT_UMC05A_30V == 3

JRK_PRODUCT_UMC05A_40V == 4

\* Used by jrk_settings_to_string; its #define belongs to a jrk.h newer than
\* the one in the repository snapshot.
JRK_PRODUCT_UMC06A == 5

\* The product codes the library recognizes.
RecognizedProducts ==
  { JRK_PRODUCT_UMC04A_30V, JRK_PRODUCT_UMC04A_40V, JRK_PRODUCT_UMC05A_30V,
    JRK_PRODUCT_UMC05A_40V, JRK_PRODUCT_UMC06A }

\* jrk_look_up_product_name_short: the short name, or the empty string for a
\* product that is not one of the JRK_PRODUCT_* macros.
jrk_look_up_product_name_short(product) ==
  CASE product = JRK_PRODUCT_UMC04A_30V -> "umc04a_30v"
    [] product = JRK_PRODUCT_UMC04A_40V -> "umc04a_40v"
    [] product = JRK_PRODUCT_UMC05A_30V -> "umc05a_30v"
    [] product = JRK_PRODUCT_UMC05A_40V -> "umc05a_40v"
    [] product = JRK_PRODUCT_UMC06A -> "umc06a"
    [] OTHER -> ""

\* ------------------------------------------------------------ field tables

\* The settings in the order jrk_settings_to_string prints them (which is the
\* order of their declaration in jrk.h).
FieldOrder ==
  <<
    "input_mode", "input_error_minimum",
    "input_error_maximum", "input_minimum",
    "input_maximum", "input_neutral_minimum",
    "input_neutral_maximum", "output_minimum",
    "output_neutral", "output_maximum",
    "input_invert", "input_scaling_degree",
    "input_detect_disconnect", "input_analog_samples_exponent",
    "feedback_mode", "feedback_error_minimum",
    "feedback_error_maximum", "feedback_minimum",
    "feedback_maximum", "feedback_invert",
    "feedback_detect_disconnect", "feedback_dead_zone",
    "feedback_analog_samples_exponent", "feedback_wraparound",
    "serial_mode", "serial_baud_rate",
    "serial_timeout", "serial_device_number",
    "never_sleep", "serial_enable_crc",
    "serial_enable_14bit_device_number", "serial_disable_compact_protocol",
    "proportional_multiplier", "proportional_exponent",
    "integral_multiplier", "integral_exponent",
    "derivative_multiplier", "derivative_exponent",
    "pid_period", "integral_divider_exponent",
    "integral_limit", "reset_integral",
    "pwm_frequency", "current_samples_exponent",
    "hard_overcurrent_threshold", "current_offset_calibration",
    "current_scale_calibration", "motor_invert",
    "max_duty_cycle_while_feedback_out_of_range", "max_acceleration_forward",
    "max_acceleration_reverse", "max_deceleration_forward",
    "max_deceleration_reverse", "max_duty_cycle_forward",
    "max_duty_cycle_reverse", "encoded_hard_current_limit_forward",
    "encoded_hard_current_limit_reverse", "brake_duration_forward",
    "brake_duration_reverse", "soft_current_limit_forward",
    "soft_current_limit_reverse", "soft_current_regulation_level_forward",
    "soft_current_regulation_level_reverse", "coast_when_off",
    "error_enable", "error_latch",
    "error_hard", "vin_calibration",
    "disable_i2c_pullups", "analog_sda_pullup",
    "always_analog_sda", "always_analog_fba",
    "fbt_method", "fbt_timing_clock",
    "fbt_timing_polarity", "fbt_timing_timeout",
    "fbt_samples", "fbt_divider_exponent"
  >>

\* The C type of each setting: the parameter type of its setter, the return
\* type of its getter and the type of the local jrk_settings_to_string reads
\* it into.
FieldType ==
  [
    input_mode |-> "uint8_t", input_error_minimum |-> "uint16_t",
    input_error_maximum |-> "uint16_t", input_minimum |-> "uint16_t",
    input_maximum |-> "uint16_t", input_neutral_minimum |-> "uint16_t",
    input_neutral_maximum |-> "uint16_t", output_minimum |-> "uint16_t",
    output_neutral |-> "uint16_t", output_maximum |-> "uint16_t",
    input_invert |-> "bool", input_scaling_degree |-> "uint8_t",
    input_detect_disconnect |-> "bool", input_analog_samples_exponent |-> "uint8_t",
    feedback_mode |-> "uint8_t", feedback_error_minimum |-> "uint16_t",
    feedback_error_maximum |-> "uint16_t", feedback_minimum |-> "uint16_t",
    feedback_maximum |-> "uint16_t", feedback_invert |-> "bool",
    feedback_detect_disconnect |-> "bool", feedback_dead_zone |-> "uint8_t",
    feedback_analog_samples_exponent |-> "uint8_t", feedback_wraparound |-> "bool",
    serial_mode |-> "uint8_t", serial_baud_rate |-> "uint32_t",
    serial_timeout |-> "uint32_t", serial_device_number |-> "uint16_t",
    never_sleep |-> "bool", serial_enable_crc |-> "bool",
    serial_enable_14bit_device_number |-> "bool", serial_disable_compact_protocol |-> "bool",
    proportional_multiplier |-> "uint16_t", proportional_exponent |-> "uint8_t",
    integral_multiplier |-> "uint16_t", integral_exponent |-> "uint8_t",
    derivative_multiplier |-> "uint16_t", derivative_exponent |-> "uint8_t",
    pid_period |-> "uint16_t", integral_divider_exponent |-> "uint8_t",
    integral_limit |-> "uint16_t", reset_integral |-> "bool",
    pwm_frequency |-> "uint8_t", current_samples_exponent |-> "uint8_t",
    hard_overcurrent_threshold |-> "uint8_t", current_offset_calibration |-> "int16_t",
    current_scale_calibration |-> "int16_t", motor_invert |-> "bool",
    max_duty_cycle_while_feedback_out_of_range |-> "uint16_t", max_acceleration_forward |-> "uint16_t",
    max_acceleration_reverse |-> "uint16_t", max_deceleration_forward |-> "uint16_t",
    max_deceleration_reverse |-> "uint16_t", max_duty_cycle_forward |-> "uint16_t",
    max_duty_cycle_reverse |-> "uint16_t", encoded_hard_current_limit_forward |-> "uint16_t",
    encoded_hard_current_limit_reverse |-> "uint16_t", brake_duration_forward |-> "uint32_t",
    brake_duration_reverse |-> "uint32_t", soft_current_limit_forward |-> "uint16_t",
    soft_current_limit_reverse |-> "uint16_t", soft_current_regulation_level_forward |-> "uint16_t",
    soft_current_regulation_level_reverse |-> "uint16_t", coast_when_off |-> "bool",
    error_enable |-> "uint16_t", error_latch |-> "uint16_t",
    error_hard |-> "uint16_t", vin_calibration |-> "int16_t",
    disable_i2c_pullups |-> "bool", analog_sda_pullup |-> "bool",
    always_analog_sda |-> "bool", always_analog_fba |-> "bool",
    fbt_method |-> "uint8_t", fbt_timing_clock |-> "uint8_t",
    fbt_timing_polarity |-> "bool", fbt_timing_timeout |-> "uint16_t",
    fbt_samples |-> "uint8_t", fbt_divider_exponent |-> "uint8_t"
  ]

\* How jrk_settings_to_string prints each setting: "u" with %u, "d" with %d,
\* "bool" as true/false, "enum" with %s through jrk_code_to_name.
FieldFormat ==
  [
    input_mode |-> "enum", input_error_minimum |-> "u", input_error_maximum |-> "u",
    input_minimum |-> "u", input_maximum |-> "u", input_neutral_minimum |-> "u",
    input_neutral_maximum |-> "u", output_minimum |-> "u", output_neutral |-> "u",
    output_maximum |-> "u", input_invert |-> "bool", input_scaling_degree |-> "enum",
    input_detect_disconnect |-> "bool", input_analog_samples_exponent |-> "u", feedback_mode |-> "enum",
    feedback_error_minimum |-> "u", feedback_error_maximum |-> "u", feedback_minimum |-> "u",
    feedback_maximum |-> "u", feedback_invert |-> "bool", feedback_detect_disconnect |-> "bool",
    feedback_dead_zone |-> "u", feedback_analog_samples_exponent |-> "u", feedback_wraparound |-> "bool",
    serial_mode |-> "enum", serial_baud_rate |-> "u", serial_timeout |-> "u",
    serial_device_number |-> "u", never_sleep |-> "bool", serial_enable_crc |-> "bool",
    serial_enable_14bit_device_number |-> "bool", serial_disable_compact_protocol |-> "bool", proportional_multiplier |-> "u",
    proportional_exponent |-> "u", integral_multiplier |-> "u", integral_exponent |-> "u",
    derivative_multiplier |-> "u", derivative_exponent |-> "u", pid_period |-> "u",
    integral_divider_exponent |-> "u", integral_limit |-> "u", reset_integral |-> "bool",
    pwm_frequency |-> "enum", current_samples_exponent |-> "u", hard_overcurrent_threshold |-> "u",
    current_offset_calibration |-> "d", current_scale_calibration |-> "d", motor_invert |-> "bool",
    max_duty_cycle_while_feedback_out_of_range |-> "u", max_acceleration_forward |-> "u", max_acceleration_reverse |-> "u",
    max_deceleration_forward |-> "u", max_deceleration_reverse |-> "u", max_duty_cycle_forward |-> "u",
    max_duty_cycle_reverse |-> "u", encoded_hard_current_limit_forward |-> "u", encoded_hard_current_limit_reverse |-> "u",
    brake_duration_forward |-> "u", brake_duration_reverse |-> "u", soft_current_limit_forward |-> "u",
    soft_current_limit_reverse |-> "u", soft_current_regulation_level_forward |-> "u", soft_current_regulation_level_reverse |-> "u",
    coast_when_off |-> "bool", error_enable |-> "u", error_latch |-> "u",
    error_hard |-> "u", vin_calibration |-> "d", disable_i2c_pullups |-> "bool",
    analog_sda_pullup |-> "bool", always_analog_sda |-> "bool", always_analog_fba |-> "bool",
    fbt_method |-> "enum", fbt_timing_clock |-> "enum", fbt_timing_polarity |-> "bool",
    fbt_timing_timeout |-> "u", fbt_samples |-> "u", fbt_divider_exponent |-> "u"
  ]

\* The names of the settings other than product.
FieldNames == { FieldOrder[i] : i \in 1..Len(FieldOrder) }

\* The short names of the enumerated settings (jrk_input_mode_names_short and
\* the like), each table indexed by code + 1.
NameTable ==
  [ input_mode |-> <<"serial", "analog", "rc">>,
    input_scaling_degree |-> <<"linear", "quadratic", "cubic">>,
    feedback_mode |-> <<"none", "analog", "frequency">>,
    serial_mode |-> <<"usb_dual_port", "usb_chained", "uart">>,
    pwm_frequency |-> <<"20", "5">>,
    fbt_method |-> <<"pulse_counting", "pulse_timing">>,
    fbt_timing_clock |-> <<"48", "24", "12", "6", "3", "1.5">> ]

\* A jrk_code_to_name that gives the name "?" when the table has no such
\* code.
jrk_code_to_name_m(table, code) ==
  IF code + 1 \in DOMAIN table THEN table[code + 1] ELSE "?"

\* jrk_code_to_name: the name of the code in the table, or the caller's
\* initial value_str (the empty string) when the table has no such code.
jrk_code_to_name(table, code) ==
  IF code + 1 \in DOMAIN table THEN table[code + 1] ELSE ""

\* ------------------------------------------------------------ C integers

\* A conversion that lets a uint16_t hold any number.
Wrap_m(type, v) ==
  CASE type = "bool" -> v
    [] type = "uint8_t" -> v % 256
    [] type = "uint16_t" -> v
    [] type = "uint32_t" -> v
    [] type = "int16_t" -> ((v + 32768) % 65536) - 32768

\* The value a C conversion to the type stores.  The numbers of the model
\* are below 2^31 and the arguments given for a uint32_t are never negative,
\* so the conversion to uint32_t changes none of them.
Wrap(type, v) ==
  CASE type = "bool" -> v
    [] type = "uint8_t" -> v % 256
    [] type = "uint16_t" -> v % 65536
    [] type = "uint32_t" -> v
    [] type = "int16_t" -> ((v + 32768) % 65536) - 32768

\* The values of the type.
InType(type, v) ==
  CASE type = "uint8_t" -> v \in 0..255
    [] type = "uint16_t" -> v \in 0..65535
    [] type = "uint32_t" -> v >= 0
    [] type = "int16_t" -> v \in -32768..32767

\* ------------------------------------------------------- settings object

\* jrk_settings_create: no product specified and all settings set to zero.
jrk_settings_create ==
  [ f \in FieldNames \cup {"product"} |->
      IF f # "product" /\ FieldType[f] = "bool" THEN FALSE ELSE 0 ]

\* jrk_settings_set_product.
jrk_settings_set_product(s, product) ==
  [s EXCEPT !["product"] = Wrap("uint32_t", product)]

\* jrk_settings_set_<f>: stores the argument, converted to the parameter type.
jrk_settings_set(s, f, v) == [s EXCEPT ![f] = Wrap(FieldType[f], v)]

\* jrk_settings_fill_with_defaults: does nothing unless the product is valid;
\* the product's table of defaults is taken to be all zero.
jrk_settings_fill_with_defaults(s) ==
  IF s["product"] \in RecognizedProducts
    THEN [jrk_settings_create EXCEPT !["product"] = s["product"]]
    ELSE s

\* ------------------------------------------------------ jrk_settings_fix

JRK_SERIAL_TIMEOUT_UNITS == 10

JRK_MAX_ALLOWED_SERIAL_TIMEOUT == 655350

JRK_BRAKE_DURATION_UNITS == 5

JRK_MAX_ALLOWED_BRAKE_DURATION == 1275

MaxPidMultiplier == 1023

MaxPidExponent == 18

MaxCurrentOffsetCalibration == 800

Min(a, b) == IF a < b THEN a ELSE b

Max(a, b) == IF a > b THEN a ELSE b

\* A rounding that moves every value to the next multiple of the unit.
RoundToUnit_m(v, unit) == (v \div unit + 1) * unit

\* The multiple of unit nearest to v.
RoundToUnit(v, unit) == ((v + unit \div 2) \div unit) * unit

\* A fix that clears the ignored bits in 14-bit mode only.
ClearIgnoredBits_m(number, enable_14bit) ==
  IF enable_14bit THEN number % 16384 ELSE number

\* The device number with the bits the serial mode ignores cleared: the
\* lower 14 bits count with 14-bit device numbers, the lower 7 otherwise.
ClearIgnoredBits(number, enable_14bit) ==
  IF enable_14bit THEN number % 16384 ELSE number % 128

\* The value jrk_settings_fix leaves in setting f of s, the settings before
\* f in declaration order being fixed already.
FixedValue(s, f) ==
  CASE FieldFormat[f] = "enum" ->
         IF s[f] + 1 \in DOMAIN NameTable[f] THEN s[f] ELSE 0
    [] f = "input_maximum" -> Max(s[f], s["input_minimum"])
    [] f = "input_neutral_maximum" -> Max(s[f], s["input_neutral_minimum"])
    [] f = "serial_timeout" ->
         RoundToUnit(Min(s[f], JRK_MAX_ALLOWED_SERIAL_TIMEOUT),
                     JRK_SERIAL_TIMEOUT_UNITS)
    [] f = "serial_device_number" ->
         ClearIgnoredBits(s[f], s["serial_enable_14bit_device_number"])
    [] f \in {"proportional_multiplier", "integral_multiplier",
              "derivative_multiplier"} -> Min(s[f], MaxPidMultiplier)
    [] f \in {"proportional_exponent", "integral_exponent",
              "derivative_exponent"} -> Min(s[f], MaxPidExponent)
    [] f \in {"brake_duration_forward", "brake_duration_reverse"} ->
         RoundToUnit(Min(s[f], JRK_MAX_ALLOWED_BRAKE_DURATION),
                     JRK_BRAKE_DURATION_UNITS)
    [] f = "current_offset_calibration" ->
         Max(-MaxCurrentOffsetCalibration,
             Min(s[f], MaxCurrentOffsetCalibration))
    [] OTHER -> s[f]

\* The warning appended for a correction of setting f: one sentence naming
\* the setting, ended by a newline.
WarningLine(f) == <<"Warning: The setting was invalid and has been changed: ", f, "\n">>

\* A fixing step that puts the newest warning first.
FixField_m(s, w, f) ==
  LET v == FixedValue(s, f)
  IN  IF v = s[f]
        THEN [settings |-> s, warnings |-> w]
        ELSE [settings |-> [s EXCEPT ![f] = v], warnings |-> WarningLine(f) \o w]

\* One step of the fixing pass: setting f is corrected if it needs to be, and
\* the correction appends its warning.
FixField(s, w, f) ==
  LET v == FixedValue(s, f)
  IN  IF v = s[f]
        THEN [settings |-> s, warnings |-> w]
        ELSE [settings |-> [s EXCEPT ![f] = v], warnings |-> w \o WarningLine(f)]

\* The fixing pass over the settings number lo to hi, visited in declaration
\* order (the range is halved to keep the evaluation shallow).
RECURSIVE FixRange(_, _, _, _)
FixRange(s, w, lo, hi) ==
  IF lo = hi
    THEN FixField(s, w, FieldOrder[lo])
    ELSE LET mid == (lo + hi) \div 2
             left == FixRange(s, w, lo, mid)
         IN  IF left = [settings |-> s, warnings |-> w]
               THEN FixRange(s, w, mid + 1, hi)
               ELSE FixRange(left.settings, left.warnings, mid + 1, hi)

\* jrk_settings_fix on a non-null settings object: the fixed settings and
\* the warnings text.
jrk_settings_fix(s) == FixRange(s, <<>>, 1, Len(FieldOrder))

\* ------------------------------------------------ jrk_settings_to_string

DigitChar == <<"0", "1", "2", "3", "4", "5", "6", "7", "8", "9">>

\* printf's %u: the decimal digits of n >= 0, most significant first.
RECURSIVE FormatU(_)
FormatU(n) ==
  IF n < 10
    THEN <<DigitChar[n + 1]>>
    ELSE Append(FormatU(n \div 10), DigitChar[(n % 10) + 1])

\* printf's %d.
FormatD(n) == IF n < 0 THEN <<"-">> \o FormatU(-n) ELSE FormatU(n)

\* printf's %s: the characters of the string, none for the empty string.
FormatS(str) == IF str = "" THEN <<>> ELSE <<str>>

\* The two comment lines that start a settings file.
HeaderLines ==
  <<"# Pololu jrk settings file.", "\n", "# DOCUMENTATION_URL", "\n">>

\* The product line.
ProductLine(s) ==
  <<"product", ": ">>
    \o FormatS(jrk_look_up_product_name_short(s["product"])) \o <<"\n">>

\* A gating with the two product tests exchanged.
Printed_m(product, f) ==
  CASE f \in {"hard_overcurrent_threshold",
              "encoded_hard_current_limit_forward",
              "encoded_hard_current_limit_reverse"} ->
         product = JRK_PRODUCT_UMC06A
    [] f \in {"soft_current_regulation_level_forward",
              "soft_current_regulation_level_reverse"} ->
         product # JRK_PRODUCT_UMC06A
    [] OTHER -> TRUE

\* The condition under which jrk_settings_to_string prints setting f.
Printed(product, f) ==
  CASE f \in {"hard_overcurrent_threshold",
              "encoded_hard_current_limit_forward",
              "encoded_hard_current_limit_reverse"} ->
         product # JRK_PRODUCT_UMC06A
    [] f \in {"soft_current_regulation_level_forward",
              "soft_current_regulation_level_reverse"} ->
         product = JRK_PRODUCT_UMC06A
    [] OTHER -> TRUE

\* A formatting that prints the code of an enumerated setting, not its name.
ValueTokens_m(s, f) ==
  CASE FieldFormat[f] = "u" -> FormatU(s[f])
    [] FieldFormat[f] = "d" -> FormatD(s[f])
    [] FieldFormat[f] = "bool" -> <<IF s[f] THEN "true" ELSE "false">>
    [] FieldFormat[f] = "enum" -> FormatU(s[f])

\* The value of setting f as its jrk_sprintf call formats it.
ValueTokens(s, f) ==
  CASE FieldFormat[f] = "u" -> FormatU(s[f])
    [] FieldFormat[f] = "d" -> FormatD(s[f])
    [] FieldFormat[f] = "bool" -> <<IF s[f] THEN "true" ELSE "false">>
    [] FieldFormat[f] = "enum" -> FormatS(jrk_code_to_name(NameTable[f], s[f]))

\* The line of setting f: "f: value\n".
FieldLine(s, f) == <<f, ": ">> \o ValueTokens(s, f) \o <<"\n">>

\* The lines of the settings number lo to hi, in order (the range is halved
\* to keep the evaluation shallow).
RECURSIVE FieldLines(_, _, _)
FieldLines(s, lo, hi) ==
  IF lo = hi
    THEN IF Printed(s["product"], FieldOrder[lo])
           THEN FieldLine(s, FieldOrder[lo]) ELSE <<>>
    ELSE LET mid == (lo + hi) \div 2
         IN  FieldLines(s, lo, mid) \o FieldLines(s, mid + 1, hi)

\* A text whose product line comes before the header.
SettingsText_m(s) ==
  ProductLine(s) \o HeaderLines \o FieldLines(s, 1, Len(FieldOrder))

\* The text jrk_settings_to_string builds in str.
SettingsText(s) ==
  HeaderLines \o ProductLine(s) \o FieldLines(s, 1, Len(FieldOrder))

\* A jrk_settings_to_string that does not look at str.data before it returns.
jrk_settings_to_string_m(s, string_is_null, nomem) ==
  IF string_is_null
    THEN [error |-> Ptr("String output pointer is null."),
          written |-> FALSE, string |-> NULL]
  ELSE IF s = NULL
    THEN [error |-> Ptr("Settings pointer is null."),
          written |-> TRUE, string |-> NULL]
  ELSE IF nomem
    THEN [error |-> NULL, written |-> TRUE, string |-> NULL]
  ELSE [error |-> NULL, written |-> TRUE, string |-> Ptr(SettingsText(s.at))]

\* jrk_settings_to_string(settings, string): the returned error, and the
\* value *string has on return (written tells whether it was assigned at
\* all).  nomem: an allocation of the jrk_string failed, leaving str.data
\* NULL.
jrk_settings_to_string(s, string_is_null, nomem) ==
  IF string_is_null
    THEN [error |-> Ptr("String output pointer is null."),
          written |-> FALSE, string |-> NULL]
  ELSE IF s = NULL
    THEN [error |-> Ptr("Settings pointer is null."),
          written |-> TRUE, string |-> NULL]
  ELSE IF nomem
    THEN [error |-> Ptr("jrk_error_no_memory"),
          written |-> TRUE, string |-> NULL]
  ELSE [error |-> NULL, written |-> TRUE, string |-> Ptr(SettingsText(s.at))]

\* ---------------------------------------- jrk_settings_read_from_string

\* The positions of the newlines of t between lo and hi, in order.
RECURSIVE Newlines(_, _, _)
Newlines(t, lo, hi) ==
  IF lo > hi THEN <<>>
  ELSE IF lo = hi THEN (IF t[lo] = "\n" THEN <<lo>> ELSE <<>>)
  ELSE LET mid == (lo + hi) \div 2
       IN  Newlines(t, lo, mid) \o Newlines(t, mid + 1, hi)

\* The positions where the lines of the text t end: its newlines and, when
\* text follows the last newline, the position after the text.
LineEnds(t) ==
  LET nl == Newlines(t, 1, Len(t))
      last == IF nl = <<>> THEN 0 ELSE nl[Len(nl)]
  IN  IF last < Len(t) THEN Append(nl, Len(t) + 1) ELSE nl

\* Line number k of the text t whose lines end at ends, without its newline.
Line(t, ends, k) ==
  SubSeq(t, IF k = 1 THEN 1 ELSE ends[k - 1] + 1, ends[k] - 1)

IsComment(line) == line # <<>> /\ line[1] \in {HeaderLines[1], HeaderLines[3]}

IsDigits(val) ==
  val # <<>> /\ \A i \in 1..Len(val) : \E d \in 1..10 : DigitChar[d] = val[i]

DigitValue(c) == (CHOOSE d \in 1..10 : DigitChar[d] = c) - 1

\* The number the decimal digits val denote.
RECURSIVE ParseU(_)
ParseU(val) ==
  IF Len(val) = 1
    THEN DigitValue(val[1])
    ELSE 10 * ParseU(SubSeq(val, 1, Len(val) - 1)) + DigitValue(val[Len(val)])

\* The code whose name in the table is the name, or -1.
name_to_code(table, name) ==
  IF \E c \in DOMAIN table : table[c] = name
    THEN (CHOOSE c \in DOMAIN table : table[c] = name) - 1
    ELSE -1

\* The value the text val denotes for setting f: ok tells whether val parses
\* as a value of the setting's type.
ParseValue(f, val) ==
  CASE FieldFormat[f] = "bool" ->
         [ok |-> val \in {<<"true">>, <<"false">>}, v |-> val = <<"true">>]
    [] FieldFormat[f] = "enum" ->
         IF Len(val) = 1 /\ name_to_code(NameTable[f], val[1]) >= 0
           THEN [ok |-> TRUE, v |-> name_to_code(NameTable[f], val[1])]
           ELSE [ok |-> FALSE, v |-> 0]
    [] FieldFormat[f] \in {"u", "d"} ->
         LET neg == FieldFormat[f] = "d" /\ val # <<>> /\ val[1] = "-"
             mag == IF neg THEN Tail(val) ELSE val
         IN  IF IsDigits(mag)
               THEN LET n == IF neg THEN -ParseU(mag) ELSE ParseU(mag)
                    IN  [ok |-> InType(FieldType[f], n), v |-> n]
               ELSE [ok |-> FALSE, v |-> 0]

\* The product code the text val denotes, or 0.
ParseProduct(val) ==
  IF Len(val) = 1
       /\ \E p \in RecognizedProducts : jrk_look_up_product_name_short(p) = val[1]
    THEN CHOOSE p \in RecognizedProducts :
           jrk_look_up_product_name_short(p) = val[1]
    ELSE 0

\* The settings object after one line of a settings file: a comment, an
\* unknown key and a value that does not parse leave it as it is; the product
\* line sets the product and fills in its defaults.
ParseLine(s, line) ==
  IF IsComment(line) \/ Len(line) < 2 \/ line[2] # ": "
    THEN s
    ELSE LET key == line[1]
             val == SubSeq(line, 3, Len(line))
         IN  IF key = "product"
               THEN jrk_settings_fill_with_defaults(
                      jrk_settings_set_product(s, ParseProduct(val)))
             ELSE IF key \in FieldNames /\ ParseValue(key, val).ok
               THEN jrk_settings_set(s, key, ParseValue(key, val).v)
             ELSE s

\* The settings object after the lines number lo to hi of the text t, read
\* in order (the range is halved to keep the evaluation shallow).
RECURSIVE ParseLines(_, _, _, _, _)
ParseLines(s, t, ends, lo, hi) ==
  IF lo > hi THEN s
  ELSE IF lo = hi THEN ParseLine(s, Line(t, ends, lo))
  ELSE LET mid == (lo + hi) \div 2
           left == ParseLines(s, t, ends, lo, mid)
       IN  IF left = s
             THEN ParseLines(s, t, ends, mid + 1, hi)
             ELSE ParseLines(left, t, ends, mid + 1, hi)

\* jrk_settings_read_from_string(string, settings), settings being the
\* non-null pointer its contract asks for: the returned error and the value
\* of *settings on return.
jrk_settings_read_from_string(str) ==
  IF str = NULL
    THEN [error |-> Ptr("Settings input string is null."),
          written |-> TRUE, settings |-> NULL]
  ELSE LET ends == LineEnds(str.at)
       IN  [error |-> NULL, written |-> TRUE,
            settings |-> Ptr(ParseLines(jrk_settings_create, str.at, ends,
                                        1, Len(ends)))]

\* ===================================================== jrk_variables.c

PIN_COUNT == 5

\* The numbers of the control pins and their count (jrk_protocol.h).
JRK_PIN_NUM_SCL == 0
JRK_PIN_NUM_SDA == 1
JRK_PIN_NUM_TX == 2
JRK_PIN_NUM_RX == 3
JRK_PIN_NUM_RC == 4
JRK_PIN_NUM_AUX == 5
JRK_PIN_NUM_FBA == 6
JRK_PIN_NUM_FBT == 7
JRK_CONTROL_PIN_COUNT == 8

\* The members of struct jrk_variables that the generated code decodes, the
\* address in the variables buffer each is read at and the way it is read.
VarFieldOrder ==
  << "input",
     "target",
     "feedback",
     "scaled_feedback",
     "integral",
     "duty_cycle_target",
     "duty_cycle",
     "current_low_res",
     "pid_period_exceeded",
     "pid_period_count",
     "error_flags_halting",
     "error_flags_occurred",
     "vin_voltage",
     "current",
     "device_reset",
     "up_time",
     "rc_pulse_width",
     "fbt_reading",
     "raw_current",
     "encoded_hard_current_limit",
     "last_duty_cycle",
     "current_chopping_consecutive_count",
     "current_chopping_occurrence_count" >>

VarAddress ==
  [ input |-> "JRK_VAR_INPUT",
    target |-> "JRK_VAR_TARGET",
    feedback |-> "JRK_VAR_FEEDBACK",
    scaled_feedback |-> "JRK_VAR_SCALED_FEEDBACK",
    integral |-> "JRK_VAR_INTEGRAL",
    duty_cycle_target |-> "JRK_VAR_DUTY_CYCLE_TARGET",
    duty_cycle |-> "JRK_VAR_DUTY_CYCLE",
    current_low_res |-> "JRK_VAR_CURRENT_LOW_RES",
    pid_period_exceeded |-> "JRK_VAR_PID_PERIOD_EXCEEDED",
    pid_period_count |-> "JRK_VAR_PID_PERIOD_COUNT",
    error_flags_halting |-> "JRK_VAR_ERROR_FLAGS_HALTING",
    error_flags_occurred |-> "JRK_VAR_ERROR_FLAGS_OCCURRED",
    vin_voltage |-> "JRK_VAR_VIN_VOLTAGE",
    current |-> "JRK_VAR_CURRENT",
    device_reset |-> "JRK_VAR_DEVICE_RESET",
    up_time |-> "JRK_VAR_UP_TIME",
    rc_pulse_width |-> "JRK_VAR_RC_PULSE_WIDTH",
    fbt_reading |-> "JRK_VAR_FBT_READING",
    raw_current |-> "JRK_VAR_RAW_CURRENT",
    encoded_hard_current_limit |-> "JRK_VAR_ENCODED_HARD_CURRENT_LIMIT",
    last_duty_cycle |-> "JRK_VAR_LAST_DUTY_CYCLE",
    current_chopping_consecutive_count |-> "JRK_VAR_CURRENT_CHOPPING_CONSECUTIVE_COUNT",
    current_chopping_occurrence_count |-> "JRK_VAR_CURRENT_CHOPPING_OCCURRENCE_COUNT" ]

VarRead ==
  [ input |-> "read_uint16_t",
    target |-> "read_uint16_t",
    feedback |-> "read_uint16_t",
    scaled_feedback |-> "read_uint16_t",
    integral |-> "read_int16_t",
    duty_cycle_target |-> "read_int16_t",
    duty_cycle |-> "read_int16_t",
    current_low_res |-> "byte",
    pid_period_exceeded |-> "bit0",
    pid_period_count |-> "read_uint16_t",
    error_flags_halting |-> "read_uint16_t",
    error_flags_occurred |-> "read_uint16_t",
    vin_voltage |-> "read_uint16_t",
    current |-> "read_uint16_t",
    device_reset |-> "byte",
    up_time |-> "read_uint32_t",
    rc_pulse_width |-> "read_uint16_t",
    fbt_reading |-> "read_uint16_t",
    raw_current |-> "read_uint16_t",
    encoded_hard_current_limit |-> "read_uint16_t",
    last_duty_cycle |-> "read_int16_t",
    current_chopping_consecutive_count |-> "byte",
    current_chopping_occurrence_count |-> "byte" ]

VarFields == { VarFieldOrder[i] : i \in 1..Len(VarFieldOrder) }

\* The number of bytes the decoder reads at an address.
ReadWidth(read) ==
  CASE read \in {"read_uint16_t", "read_int16_t"} -> 2
    [] read = "read_uint32_t" -> 4
    [] OTHER -> 1

\* The variables buffer of the model: for each address the decoder reads
\* at, the bytes found there, first byte first.  (The offsets of
\* jrk_protocol.h are symbolic: each address names its own bytes.)
Addresses ==
  { VarAddress[f] : f \in VarFields }
    \cup {"JRK_VAR_FLAG_BYTE1", "JRK_VAR_DIGITAL_READINGS",
          "JRK_VAR_ANALOG_READING_SDA", "JRK_VAR_ANALOG_READING_FBA"}

AddressWidth ==
  [ a \in Addresses |->
      IF a \in {"JRK_VAR_FLAG_BYTE1", "JRK_VAR_DIGITAL_READINGS"} THEN 1
      ELSE IF a \in {"JRK_VAR_ANALOG_READING_SDA",
                     "JRK_VAR_ANALOG_READING_FBA"} THEN 2
      ELSE ReadWidth(VarRead[CHOOSE f \in VarFields : VarAddress[f] = a]) ]

\* sizeof(buf), the size of the whole variables buffer.
JRK_VARIABLES_SIZE ==
  Cardinality(UNION { { <<a, i>> : i \in 1..AddressWidth[a] } :
                      a \in Addresses })

\* The variables of a device that has just started.
ZeroBuffer == [ a \in Addresses |-> [ i \in 1..AddressWidth[a] |-> 0 ] ]

\* Little-endian reads of the bytes b.
read_uint16_t(b) == b[1] + 256 * b[2]

read_int16_t(b) == Wrap("int16_t", read_uint16_t(b))

read_uint32_t(b) == b[1] + 256 * b[2] + 65536 * b[3] + 16777216 * b[4]

\* A reading that is set when any bit from n upwards is set.
Bit_m(d, n) == IF d \div (2 ^ n) > 0 THEN 1 ELSE 0

\* d >> n & 1
Bit(d, n) == (d \div (2 ^ n)) % 2

\* calloc(1, sizeof(jrk_variables)): every member zero.
ZeroVariables ==
  [ f \in VarFields \cup {"force_mode", "pin_info"} |->
      IF f = "pin_info"
        THEN [ pin \in 0..(JRK_CONTROL_PIN_COUNT - 1) |->
                 [analog_reading |-> 0, digital_reading |-> 0, pin_state |-> 0] ]
        ELSE 0 ]

\* jrk_variables_create(&new_variables): the returned error and the new
\* object.  nomem: calloc returns NULL.
jrk_variables_create(nomem) ==
  IF nomem
    THEN [error |-> Ptr(<<"jrk_error_no_memory">>), variables |-> NULL]
    ELSE [error |-> NULL, variables |-> Ptr(ZeroVariables)]

\* One assignment of the generated code: the value read for member f.
DecodedField(buf, f) ==
  LET b == buf[VarAddress[f]]
  IN  CASE VarRead[f] = "read_uint16_t" -> read_uint16_t(b)
        [] VarRead[f] = "read_int16_t" -> read_int16_t(b)
        [] VarRead[f] = "read_uint32_t" -> read_uint32_t(b)
        [] VarRead[f] = "bit0" -> b[1] % 2
        [] VarRead[f] = "byte" -> b[1]

DigitalPins ==
  {JRK_PIN_NUM_SCL, JRK_PIN_NUM_SDA, JRK_PIN_NUM_TX, JRK_PIN_NUM_RX,
   JRK_PIN_NUM_RC, JRK_PIN_NUM_AUX, JRK_PIN_NUM_FBA, JRK_PIN_NUM_FBT}

\* A decoder that stores the digital reading of a pin as its pin state too.
DecodedPin_state(buf, info, pin) ==
  [info EXCEPT
     !.pin_state =
        IF pin \in DigitalPins
          THEN Bit(buf["JRK_VAR_DIGITAL_READINGS"][1], pin) ELSE @,
     !.digital_reading =
        IF pin \in DigitalPins
          THEN Bit(buf["JRK_VAR_DIGITAL_READINGS"][1], pin) ELSE @,
     !.analog_reading =
        CASE pin = JRK_PIN_NUM_SDA ->
               read_uint16_t(buf["JRK_VAR_ANALOG_READING_SDA"])
          [] pin = JRK_PIN_NUM_FBA ->
               read_uint16_t(buf["JRK_VAR_ANALOG_READING_FBA"])
          [] pin \in {JRK_PIN_NUM_SCL, JRK_PIN_NUM_TX, JRK_PIN_NUM_RX,
                      JRK_PIN_NUM_RC, JRK_PIN_NUM_AUX, JRK_PIN_NUM_FBT} ->
               65535
          [] OTHER -> @]

\* A decoder that leaves the pins without an analog reading as calloc made
\* them.
DecodedPin_m(buf, info, pin) ==
  [info EXCEPT
     !.digital_reading =
        IF pin \in DigitalPins
          THEN Bit(buf["JRK_VAR_DIGITAL_READINGS"][1], pin) ELSE @,
     !.analog_reading =
        CASE pin = JRK_PIN_NUM_SDA ->
               read_uint16_t(buf["JRK_VAR_ANALOG_READING_SDA"])
          [] pin = JRK_PIN_NUM_FBA ->
               read_uint16_t(buf["JRK_VAR_ANALOG_READING_FBA"])
          [] OTHER -> @]

\* The pin_info entry of a pin after the decoder: the digital reading is the
\* pin's bit of the digital readings byte, the analog reading is read from
\* the buffer for SDA and FBA and is 0xFFFF for the six other pins; the
\* decoder does not assign pin_state.
DecodedPin(buf, info, pin) ==
  [info EXCEPT
     !.digital_reading =
        IF pin \in DigitalPins
          THEN Bit(buf["JRK_VAR_DIGITAL_READINGS"][1], pin) ELSE @,
     !.analog_reading =
        CASE pin = JRK_PIN_NUM_SDA ->
               read_uint16_t(buf["JRK_VAR_ANALOG_READING_SDA"])
          [] pin = JRK_PIN_NUM_FBA ->
               read_uint16_t(buf["JRK_VAR_ANALOG_READING_FBA"])
          [] pin \in {JRK_PIN_NUM_SCL, JRK_PIN_NUM_TX, JRK_PIN_NUM_RX,
                      JRK_PIN_NUM_RC, JRK_PIN_NUM_AUX, JRK_PIN_NUM_FBT} ->
               65535
          [] OTHER -> @]

\* A decoder that stores the whole flag byte as the force mode.
write_buffer_to_variables_m(buf, vars_) ==
  [ f \in DOMAIN vars_ |->
      CASE f = "force_mode" -> buf["JRK_VAR_FLAG_BYTE1"][1]
        [] f = "pin_info" ->
             [ pin \in DOMAIN vars_[f] |-> DecodedPin(buf, vars_[f][pin], pin) ]
        [] OTHER -> DecodedField(buf, f) ]

\* write_buffer_to_variables(buf, vars_): the object after the decoding.
write_buffer_to_variables(buf, vars_) ==
  [ f \in DOMAIN vars_ |->
      CASE f = "force_mode" -> buf["JRK_VAR_FLAG_BYTE1"][1] % 4
        [] f = "pin_info" ->
             [ pin \in DOMAIN vars_[f] |-> DecodedPin(buf, vars_[f][pin], pin) ]
        [] OTHER -> DecodedField(buf, f) ]

\* jrk_get_variable_segment(handle, index, length, buf, flags) on the
\* device whose variables are dev: the command the device gets and, unless
\* the transfer fails, the bytes it answers with (all of them for index 0
\* and length JRK_VARIABLES_SIZE).
jrk_get_variable_segment(dev, index, length, flags, io_fails) ==
  [error |-> IF io_fails THEN Ptr(<<"The transfer failed.">>) ELSE NULL,
   request |-> Ptr([index |-> index, length |-> length, flags |-> flags]),
   buf |-> dev]

\* jrk_error_add(error, message): the error with the message put in front.
jrk_error_add(error_, message) == Ptr(<<message>> \o error_.at)

\* A jrk_get_variables that does not free the object when the read fails.
jrk_get_variables_leak(handle_is_null, variables_is_null, flags, nomem, io_fails, dev) ==
  IF variables_is_null
    THEN [error |-> Ptr(<<"Variables output pointer is null.">>),
          written |-> FALSE, variables |-> NULL, request |-> NULL,
          allocated |-> FALSE, freed |-> FALSE, decoded |-> FALSE]
  ELSE IF handle_is_null
    THEN [error |-> Ptr(<<"Handle is null.">>),
          written |-> TRUE, variables |-> NULL, request |-> NULL,
          allocated |-> FALSE, freed |-> FALSE, decoded |-> FALSE]
  ELSE LET created == jrk_variables_create(nomem)
           segment ==
             IF created.error = NULL
               THEN jrk_get_variable_segment(dev, 0, JRK_VARIABLES_SIZE,
                                             flags, io_fails)
               ELSE [error |-> created.error, request |-> NULL, buf |-> NULL]
           error_ == segment.error
       IN  [error |->
              IF error_ = NULL THEN NULL
              ELSE jrk_error_add(error_,
                     "There was an error reading variables from the device."),
            written |-> TRUE,
            variables |->
              IF error_ = NULL
                THEN Ptr(write_buffer_to_variables(segment.buf,
                                                   created.variables.at))
                ELSE NULL,
            request |-> segment.request,
            allocated |-> created.error = NULL,
            freed |-> FALSE,
            decoded |-> error_ = NULL]

\* A jrk_get_variables that passes the object on without looking at the
\* error of the read.
jrk_get_variables_m(handle_is_null, variables_is_null, flags, nomem, io_fails, dev) ==
  IF variables_is_null
    THEN [error |-> Ptr(<<"Variables output pointer is null.">>),
          written |-> FALSE, variables |-> NULL, request |-> NULL,
          allocated |-> FALSE, freed |-> FALSE, decoded |-> FALSE]
  ELSE IF handle_is_null
    THEN [error |-> Ptr(<<"Handle is null.">>),
          written |-> TRUE, variables |-> NULL, request |-> NULL,
          allocated |-> FALSE, freed |-> FALSE, decoded |-> FALSE]
  ELSE LET created == jrk_variables_create(nomem)
           segment ==
             IF created.error = NULL
               THEN jrk_get_variable_segment(dev, 0, JRK_VARIABLES_SIZE,
                                             flags, io_fails)
               ELSE [error |-> created.error, request |-> NULL, buf |-> NULL]
           error_ == segment.error
       IN  [error |->
              IF error_ = NULL THEN NULL
              ELSE jrk_error_add(error_,
                     "There was an error reading variables from the device."),
            written |-> TRUE,
            variables |->
              IF created.error = NULL
                THEN Ptr(write_buffer_to_variables(segment.buf,
                                                   created.variables.at))
                ELSE NULL,
            request |-> segment.request,
            allocated |-> created.error = NULL,
            freed |-> FALSE,
            decoded |-> created.error = NULL]

\* jrk_get_variables(handle, variables, flags): the returned error, the
\* value of *variables on return (written tells whether it was assigned),
\* the command sent to the device, and what became of the object: whether
\* it was allocated, freed, and written by the decoder.
jrk_get_variables(handle_is_null, variables_is_null, flags, nomem, io_fails, dev) ==
  IF variables_is_null
    THEN [error |-> Ptr(<<"Variables output pointer is null.">>),
          written |-> FALSE, variables |-> NULL, request |-> NULL,
          allocated |-> FALSE, freed |-> FALSE, decoded |-> FALSE]
  ELSE IF handle_is_null
    THEN [error |-> Ptr(<<"Handle is null.">>),
          written |-> TRUE, variables |-> NULL, request |-> NULL,
          allocated |-> FALSE, freed |-> FALSE, decoded |-> FALSE]
  ELSE LET created == jrk_variables_create(nomem)
           segment ==
             IF created.error = NULL
               THEN jrk_get_variable_segment(dev, 0, JRK_VARIABLES_SIZE,
                                             flags, io_fails)
               ELSE [error |-> created.error, request |-> NULL, buf |-> NULL]
           error_ == segment.error
       IN  [error |->
              IF error_ = NULL THEN NULL
              ELSE jrk_error_add(error_,
                     "There was an error reading variables from the device."),
            written |-> TRUE,
            variables |->
              IF error_ = NULL
                THEN Ptr(write_buffer_to_variables(segment.buf,
                                                   created.variables.at))
                ELSE NULL,
            request |-> segment.request,
            allocated |-> created.error = NULL,
            freed |-> created.error = NULL /\ error_ # NULL,
            decoded |-> error_ = NULL]

\* A jrk_variables_copy that leaves the new object as calloc made it.
jrk_variables_copy_m(source, dest_is_null, nomem) ==
  IF dest_is_null
    THEN [error |-> Ptr(<<"Variables output pointer is null.">>),
          written |-> FALSE, dest |-> NULL]
  ELSE IF source = NULL
    THEN [error |-> NULL, written |-> TRUE, dest |-> NULL]
  ELSE IF nomem
    THEN [error |-> Ptr(<<"jrk_error_no_memory">>), written |-> TRUE,
          dest |-> NULL]
  ELSE [error |-> NULL, written |-> TRUE, dest |-> Ptr(ZeroVariables)]

\* jrk_variables_copy(source, dest): the returned error and the value of
\* *dest on return (written tells whether it was assigned).
jrk_variables_copy(source, dest_is_null, nomem) ==
  IF dest_is_null
    THEN [error |-> Ptr(<<"Variables output pointer is null.">>),
          written |-> FALSE, dest |-> NULL]
  ELSE IF source = NULL
    THEN [error |-> NULL, written |-> TRUE, dest |-> NULL]
  ELSE IF nomem
    THEN [error |-> Ptr(<<"jrk_error_no_memory">>), written |-> TRUE,
          dest |-> NULL]
  ELSE [error |-> NULL, written |-> TRUE, dest |-> Ptr(source.at)]

\* The generated getters, jrk_variables_get_<f>(vars_).
jrk_variables_get(vars_, f) == IF vars_ = NULL THEN 0 ELSE vars_.at[f]

\* A jrk_variables_get_error that subtracts the scaled feedback from the
\* target.
jrk_variables_get_error_reversed(vars_) ==
  IF vars_ = NULL THEN 0
  ELSE Wrap("int16_t", vars_.at["target"] - vars_.at["scaled_feedback"])

\* A jrk_variables_get_error that reports -1 for a null object.
jrk_variables_get_error_m(vars_) ==
  IF vars_ = NULL THEN -1
  ELSE Wrap("int16_t", vars_.at["scaled_feedback"] - vars_.at["target"])

jrk_variables_get_error(vars_) ==
  IF vars_ = NULL THEN 0
  ELSE Wrap("int16_t", vars_.at["scaled_feedback"] - vars_.at["target"])

jrk_variables_get_force_mode(vars_) ==
  IF vars_ = NULL THEN 0 ELSE vars_.at["force_mode"]

jrk_variables_get_analog_reading(variables_, pin) ==
  IF variables_ = NULL \/ pin >= JRK_CONTROL_PIN_COUNT THEN 65535
  ELSE variables_.at["pin_info"][pin].analog_reading

jrk_variables_get_digital_reading(variables_, pin) ==
  IF variables_ = NULL \/ pin >= JRK_CONTROL_PIN_COUNT THEN 0
  ELSE variables_.at["pin_info"][pin].digital_reading

jrk_variables_get_pin_state(variables_, pin) ==
  IF variables_ = NULL \/ pin >= PIN_COUNT THEN 0
  ELSE variables_.at["pin_info"][pin].pin_state

\* --------------------------------------------------------------- inputs

\* The products passed to jrk_settings_set_product: a product with a hard
\* current limit and the umc06a (0, the product of a new settings object,
\* is the case of a code that is not recognized).
ProductInputs == {JRK_PRODUCT_UMC04A_30V, JRK_PRODUCT_UMC06A}

\* The setter calls a behaviour draws from: <<setting, argument>>.
SetInputs ==
  { <<"input_mode", 7>>,
    <<"input_error_minimum", 70000>>,
    <<"input_minimum", 100>>,
    <<"input_neutral_minimum", 70>>,
    <<"serial_timeout", 655357>>,
    <<"serial_device_number", 16389>>,
    <<"serial_enable_14bit_device_number", TRUE>>,
    <<"proportional_multiplier", 1024>>,
    <<"derivative_exponent", 255>>,
    <<"pwm_frequency", 1>>,
    <<"hard_overcurrent_threshold", 3>>,
    <<"current_offset_calibration", -900>>,
    <<"brake_duration_forward", 1272>> }

\* ---------------------------------------------------------- the program

\* The value of call when no result of a library call is outstanding.
NoCall == [op |-> "none"]

\* No output of the library is outstanding in the caller.
Idle ==
  /\ warnings = NULL /\ string = NULL /\ parsed = NULL
  /\ error = NULL /\ call = NoCall

\* A pid_constant_control as its constructor leaves it: both spinboxes at 0,
\* an empty line edit without focus, nothing emitted.
InitialPid ==
  [multiplier |-> 0, exponent |-> 0, text |-> <<>>, focus |-> FALSE,
   emitted |-> <<>>, call |-> NoCall]

\* The settings of a device as it leaves the factory: the defaults of its
\* product in EEPROM, loaded into RAM, and no reload waiting.
FactoryDevice ==
  LET defaults ==
        jrk_settings_fill_with_defaults(
          jrk_settings_set_product(jrk_settings_create, JRK_PRODUCT_UMC04A_30V))
  IN  [eeprom_settings |-> defaults,
       ram_settings |-> defaults,
       reinitialize_pending |-> FALSE]

Init ==
  /\ settings = jrk_settings_create
  /\ fixed = FALSE
  /\ nsets = 0
  /\ warnings = NULL
  /\ string = NULL
  /\ parsed = NULL
  /\ error = NULL
  /\ call = NoCall
  /\ device = ZeroBuffer
  /\ nupdates = 0
  /\ variables = NULL
  /\ verror = NULL
  /\ vcall = NoCall
  /\ ret = NULL
  /\ vcopy = NoCall
  /\ jrk = FactoryDevice
  /\ herror = NULL
  /\ hcall = NoCall
  /\ ncommands = 0
  /\ pid = InitialPid

\* The caller specifies the product of the new settings object.
SetProduct(product) ==
  /\ Idle /\ nsets = 0 /\ ~fixed
  /\ settings = jrk_settings_create
  /\ settings' = jrk_settings_set_product(settings, product)
  /\ UNCHANGED <<fixed, nsets, warnings, string, parsed, error, call>>
  /\ UNCHANGED <<vvars, dvars>>

SetField(f, v) ==
  /\ Idle
  /\ nsets < MaxSets
  /\ settings' = jrk_settings_set(settings, f, v)
  /\ nsets' = nsets + 1
  /\ fixed' = FALSE
  /\ UNCHANGED <<warnings, string, parsed, error, call>>
  /\ UNCHANGED <<vvars, dvars>>

FillWithDefaults ==
  /\ Idle
  /\ settings' = jrk_settings_fill_with_defaults(settings)
  /\ fixed' = FALSE
  /\ UNCHANGED <<nsets, warnings, string, parsed, error, call>>
  /\ UNCHANGED <<vvars, dvars>>

\* jrk_settings_fix(settings, warnings): the warnings argument is optional.
Fix(want_warnings) ==
  /\ Idle
  /\ LET r == jrk_settings_fix(settings)
     IN  /\ settings' = r.settings
         /\ warnings' = IF want_warnings THEN Ptr(r.warnings) ELSE warnings
  /\ fixed' = TRUE
  /\ error' = NULL
  /\ call' = [op |-> "jrk_settings_fix", want_warnings |-> want_warnings]
  /\ UNCHANGED <<nsets, string, parsed>>
  /\ UNCHANGED <<vvars, dvars>>

SettingsToString(string_is_null, settings_is_null, nomem) ==
  /\ Idle
  /\ LET r == jrk_settings_to_string(
                IF settings_is_null THEN NULL ELSE Ptr(settings),
                string_is_null, nomem)
     IN  /\ string' = IF r.written THEN r.string ELSE string
         /\ error' = r.error
  /\ call' = [op |-> "jrk_settings_to_string",
              string_is_null |-> string_is_null,
              settings_is_null |-> settings_is_null, nomem |-> nomem]
  /\ UNCHANGED <<settings, fixed, nsets, warnings, parsed>>
  /\ UNCHANGED <<vvars, dvars>>

\* The caller reads back the settings file it has just got.
ReadFromString ==
  /\ call.op = "jrk_settings_to_string" /\ string # NULL
  /\ LET r == jrk_settings_read_from_string(string)
     IN  /\ parsed' = IF r.written THEN r.settings ELSE parsed
         /\ error' = r.error
  /\ call' = [op |-> "jrk_settings_read_from_string"]
  /\ UNCHANGED <<settings, fixed, nsets, warnings, string>>
  /\ UNCHANGED <<vvars, dvars>>

\* The caller frees what the library returned: jrk_string_free on the
\* warnings and on the settings file, jrk_settings_free on the parsed
\* settings, jrk_error_free on the error.
Release ==
  /\ ~Idle
  /\ warnings' = NULL
  /\ string' = NULL
  /\ parsed' = NULL
  /\ error' = NULL
  /\ call' = NoCall
  /\ UNCHANGED <<settings, fixed, nsets>>
  /\ UNCHANGED <<vvars, dvars>>

Next ==
  \/ \E product \in ProductInputs : SetProduct(product)
  \/ \E in \in SetInputs : SetField(in[1], in[2])
  \/ FillWithDefaults
  \/ \E want_warnings \in BOOLEAN : Fix(want_warnings)
  \/ \E string_is_null, settings_is_null \in BOOLEAN :
       \* the allocation fails or not only when the call gets to it
       \E nomem \in IF string_is_null \/ settings_is_null
                    THEN {FALSE} ELSE BOOLEAN :
         SettingsToString(string_is_null, settings_is_null, nomem)
  \/ ReadFromString
  \/ Release

Spec == Init /\ [][Next]_vars

\* ------------------------------------- the program reading the variables

\* The device's variables change: the bytes at one address are replaced.
DeviceInputs ==
  { <<"JRK_VAR_INPUT", <<255, 15>>>>,
    <<"JRK_VAR_TARGET", <<255, 255>>>>,
    <<"JRK_VAR_SCALED_FEEDBACK", <<0, 128>>>>,
    <<"JRK_VAR_INTEGRAL", <<0, 128>>>>,
    <<"JRK_VAR_PID_PERIOD_EXCEEDED", <<254>>>>,
    <<"JRK_VAR_PID_PERIOD_EXCEEDED", <<3>>>>,
    <<"JRK_VAR_UP_TIME", <<1, 2, 3, 4>>>>,
    <<"JRK_VAR_FLAG_BYTE1", <<254>>>>,
    <<"JRK_VAR_FLAG_BYTE1", <<7>>>>,
    <<"JRK_VAR_DIGITAL_READINGS", <<165>>>>,
    <<"JRK_VAR_DIGITAL_READINGS", <<90>>>>,
    <<"JRK_VAR_ANALOG_READING_SDA", <<52, 18>>>>,
    <<"JRK_VAR_ANALOG_READING_FBA", <<254, 255>>>> }

\* The flags arguments of jrk_get_variables.
FlagInputs == {0, 5}

\* The pin arguments of the per-pin getters: the eight pins, the count and
\* the largest uint8_t.
PinInputs == 0..JRK_CONTROL_PIN_COUNT \cup {255}

\* The caller holds no variables object and no result of a call.
VarIdle ==
  /\ variables = NULL /\ verror = NULL /\ vcall = NoCall /\ ret = NULL
  /\ vcopy = NoCall

DeviceUpdate(address, bytes) ==
  /\ VarIdle
  /\ nupdates < MaxUpdates
  /\ device' = [device EXCEPT ![address] = bytes]
  /\ nupdates' = nupdates + 1
  /\ UNCHANGED <<variables, verror, vcall, ret, vcopy>>
  /\ UNCHANGED <<svars, dvars>>

GetVariables(handle_is_null, variables_is_null, flags, nomem, io_fails) ==
  /\ VarIdle
  /\ LET r == jrk_get_variables(handle_is_null, variables_is_null, flags,
                                nomem, io_fails, device)
     IN  /\ variables' = IF r.written THEN r.variables ELSE variables
         /\ verror' = r.error
         /\ vcall' = [op |-> "jrk_get_variables",
                      handle_is_null |-> handle_is_null,
                      variables_is_null |-> variables_is_null,
                      flags |-> flags, nomem |-> nomem, io_fails |-> io_fails,
                      request |-> r.request, allocated |-> r.allocated,
                      freed |-> r.freed, decoded |-> r.decoded]
  /\ UNCHANGED <<device, nupdates, ret, vcopy>>
  /\ UNCHANGED <<svars, dvars>>

\* The caller calls every getter on the pointer it holds, the per-pin
\* getters with every pin argument.
ReadVariables ==
  /\ ret = NULL
  /\ vcopy = NoCall
  /\ ret' = Ptr([get |-> [f \in VarFields |-> jrk_variables_get(variables, f)],
                 error |-> jrk_variables_get_error(variables),
                 force_mode |-> jrk_variables_get_force_mode(variables),
                 analog_reading |->
                   [pin \in PinInputs |->
                      jrk_variables_get_analog_reading(variables, pin)],
                 digital_reading |->
                   [pin \in PinInputs |->
                      jrk_variables_get_digital_reading(variables, pin)],
                 pin_state |->
                   [pin \in PinInputs |->
                      jrk_variables_get_pin_state(variables, pin)]])
  /\ UNCHANGED <<device, nupdates, variables, verror, vcall, vcopy>>
  /\ UNCHANGED <<svars, dvars>>

\* The caller copies the object its pointer refers to, which may be null.
CopyVariables(dest_is_null, nomem) ==
  /\ ret = NULL
  /\ vcopy = NoCall
  /\ LET r == jrk_variables_copy(variables, dest_is_null, nomem)
     IN  vcopy' = [op |-> "jrk_variables_copy", source |-> variables,
                  dest_is_null |-> dest_is_null, nomem |-> nomem,
                  error |-> r.error, written |-> r.written, dest |-> r.dest]
  /\ UNCHANGED <<device, nupdates, variables, verror, vcall, ret>>
  /\ UNCHANGED <<svars, dvars>>

\* The caller frees the variables object and the error it holds
\* and the copy and its error (jrk_variables_free, jrk_error_free) and
\* forgets what it has read.
FreeVariables ==
  /\ ~VarIdle
  /\ variables' = NULL
  /\ verror' = NULL
  /\ vcall' = NoCall
  /\ ret' = NULL
  /\ vcopy' = NoCall
  /\ UNCHANGED <<device, nupdates>>
  /\ UNCHANGED <<svars, dvars>>

VarNext ==
  \/ \E in \in DeviceInputs : DeviceUpdate(in[1], in[2])
  \/ \E handle_is_null, variables_is_null \in BOOLEAN, flags \in FlagInputs :
       \* calloc and the transfer fail or not only when the call gets to them
       \E nomem \in IF handle_is_null \/ variables_is_null
                    THEN {FALSE} ELSE BOOLEAN :
         \E io_fails \in IF handle_is_null \/ variables_is_null \/ nomem
                         THEN {FALSE} ELSE BOOLEAN :
           GetVariables(handle_is_null, variables_is_null, flags, nomem, io_fails)
  \/ ReadVariables
  \/ \E dest_is_null \in BOOLEAN :
       \* calloc fails or not only when the call gets to it
       \E nomem \in IF dest_is_null \/ variables = NULL
                    THEN {FALSE} ELSE BOOLEAN :
         CopyVariables(dest_is_null, nomem)
  \/ FreeVariables

VarSpec == Init /\ [][VarNext]_vars

\* ------------------------------------------- the commands of the handle

\* The values of the force mode and the bits of the error flags that the
\* commands change.
JRK_FORCE_MODE_NONE == 0

JRK_FORCE_MODE_DUTY_CYCLE_TARGET == 1

JRK_FORCE_MODE_DUTY_CYCLE == 2

JRK_ERROR_AWAITING_COMMAND == 0

JRK_ERROR_NO_POWER == 1

JRK_INPUT_MODE_SERIAL == 0

\* The range of the duty cycle arguments and of the target argument.
MinDutyCycle == -600

MaxDutyCycle == 600

MaxTarget == 4095

\* Little-endian writes of the value v.
write_uint16_t(v) == <<v % 256, (v \div 256) % 256>>

write_int16_t(v) == write_uint16_t((v + 65536) % 65536)

\* The number d with bit n set, and with bit n cleared.
SetBit(d, n) == IF Bit(d, n) = 1 THEN d ELSE d + 2 ^ n

ClearBit(d, n) == IF Bit(d, n) = 1 THEN d - 2 ^ n ELSE d

\* What the variables of the device dev say: its "Error flags halting", its
\* force mode, whether "Awaiting command" is set, whether it drives the motor
\* (it does while no error is halting it).
ErrorFlagsHalting(dev) == read_uint16_t(dev["JRK_VAR_ERROR_FLAGS_HALTING"])

ForceMode(dev) == dev["JRK_VAR_FLAG_BYTE1"][1] % 4

AwaitingCommand(dev) ==
  Bit(ErrorFlagsHalting(dev), JRK_ERROR_AWAITING_COMMAND) = 1

MotorOn(dev) == ErrorFlagsHalting(dev) = 0

\* The device dev with the error flags halting set to flags, and with the
\* force mode set to mode (the other bits of the flag byte stay).
WithErrorFlagsHalting(dev, flags) ==
  [dev EXCEPT !["JRK_VAR_ERROR_FLAGS_HALTING"] = write_uint16_t(flags)]

WithForceMode(dev, mode) ==
  [dev EXCEPT !["JRK_VAR_FLAG_BYTE1"] = <<(@[1] \div 4) * 4 + mode>>]

\* A "Motor off" command that sets the error bit and keeps the force mode.
MotorOff_m(dev) ==
  WithErrorFlagsHalting(dev,
    SetBit(ErrorFlagsHalting(dev), JRK_ERROR_AWAITING_COMMAND))

\* The device after a "Motor off" command: "Awaiting command" is set and the
\* movement is no longer forced.
MotorOff(dev) ==
  WithForceMode(
    WithErrorFlagsHalting(dev,
      SetBit(ErrorFlagsHalting(dev), JRK_ERROR_AWAITING_COMMAND)),
    JRK_FORCE_MODE_NONE)

\* The device after a "Set target" command: "Awaiting command" is cleared,
\* the movement is no longer forced and, if the input mode is serial, the
\* input and the target are the command's target.
SetTargetReceived(dev, serial, target) ==
  LET d == WithForceMode(
             WithErrorFlagsHalting(dev,
               ClearBit(ErrorFlagsHalting(dev), JRK_ERROR_AWAITING_COMMAND)),
             JRK_FORCE_MODE_NONE)
  IN  IF serial
        THEN [d EXCEPT !["JRK_VAR_INPUT"] = write_uint16_t(target),
                       !["JRK_VAR_TARGET"] = write_uint16_t(target)]
        ELSE d

\* The device after a "Force duty cycle target" or "Force duty cycle"
\* command: "Awaiting command" is cleared, the force mode is the command's,
\* the forced variable is the command's duty cycle and the integral is 0.
ForceReceived(dev, mode, duty_cycle) ==
  LET d == WithForceMode(
             WithErrorFlagsHalting(dev,
               ClearBit(ErrorFlagsHalting(dev), JRK_ERROR_AWAITING_COMMAND)),
             mode)
      forced == IF mode = JRK_FORCE_MODE_DUTY_CYCLE_TARGET
                  THEN "JRK_VAR_DUTY_CYCLE_TARGET" ELSE "JRK_VAR_DUTY_CYCLE"
  IN  [d EXCEPT ![forced] = write_int16_t(duty_cycle),
                !["JRK_VAR_INTEGRAL"] = write_int16_t(0)]

\* A clearing of the latched errors that never spares "Awaiting command".
ErrorsCleared_m(dev, all) == WithErrorFlagsHalting(dev, 0)

\* The device after the command of jrk_clear_errors, which clears the
\* latched errors except "Awaiting command", and after the one of
\* jrk_run_motor, which clears that one too.
ErrorsCleared(dev, all) ==
  WithErrorFlagsHalting(dev,
    IF all \/ ~AwaitingCommand(dev) THEN 0
    ELSE 2 ^ JRK_ERROR_AWAITING_COMMAND)

\* The errors the library makes for an argument it refuses.
InvalidArgumentMessages ==
  {"Handle is null.", "Settings object is null.",
   "The duty cycle is out of range."}

\* A command of the library on the device dev: a null handle is refused; the
\* command is sent and, unless the transfer fails, the device becomes after.
\* The result is the returned error, the command sent and the device.
Command(dev, handle_is_null, io_fails, command, after, message) ==
  IF handle_is_null
    THEN [error |-> Ptr(<<"Handle is null.">>), sent |-> NULL, device |-> dev]
  ELSE IF io_fails
    THEN [error |-> jrk_error_add(Ptr(<<"The transfer failed.">>), message),
          sent |-> Ptr(command), device |-> dev]
  ELSE [error |-> NULL, sent |-> Ptr(command), device |-> after]

jrk_set_target(dev, serial, handle_is_null, target, io_fails) ==
  Command(dev, handle_is_null, io_fails,
          [command |-> "Set target", value |-> target],
          SetTargetReceived(dev, serial, target),
          "There was an error setting the target.")

jrk_stop_motor(dev, handle_is_null, io_fails) ==
  Command(dev, handle_is_null, io_fails,
          [command |-> "Motor off"], MotorOff(dev),
          "There was an error stopping the motor.")

jrk_run_motor(dev, handle_is_null, io_fails) ==
  Command(dev, handle_is_null, io_fails,
          [command |-> "Run motor"], ErrorsCleared(dev, TRUE),
          "There was an error running the motor.")

jrk_clear_errors(dev, handle_is_null, io_fails) ==
  Command(dev, handle_is_null, io_fails,
          [command |-> "Clear errors"], ErrorsCleared(dev, FALSE),
          "There was an error clearing the errors.")

\* A jrk_force_duty_cycle_target that sends whatever duty cycle it is given.
jrk_force_duty_cycle_target_m(dev, handle_is_null, duty_cycle, io_fails) ==
  Command(dev, handle_is_null, io_fails,
          [command |-> "Force duty cycle target", value |-> duty_cycle],
          ForceReceived(dev, JRK_FORCE_MODE_DUTY_CYCLE_TARGET, duty_cycle),
          "There was an error forcing the duty cycle target.")

\* jrk_force_duty_cycle_target and jrk_force_duty_cycle refuse a duty cycle
\* outside -600..600 before they send anything.
jrk_force_duty_cycle_target(dev, handle_is_null, duty_cycle, io_fails) ==
  IF ~handle_is_null /\ duty_cycle \notin MinDutyCycle..MaxDutyCycle
    THEN [error |-> Ptr(<<"The duty cycle is out of range.">>),
          sent |-> NULL, device |-> dev]
  ELSE Command(dev, handle_is_null, io_fails,
               [command |-> "Force duty cycle target", value |-> duty_cycle],
               ForceReceived(dev, JRK_FORCE_MODE_DUTY_CYCLE_TARGET, duty_cycle),
               "There was an error forcing the duty cycle target.")

jrk_force_duty_cycle(dev, handle_is_null, duty_cycle, io_fails) ==
  IF ~handle_is_null /\ duty_cycle \notin MinDutyCycle..MaxDutyCycle
    THEN [error |-> Ptr(<<"The duty cycle is out of range.">>),
          sent |-> NULL, device |-> dev]
  ELSE Command(dev, handle_is_null, io_fails,
               [command |-> "Force duty cycle", value |-> duty_cycle],
               ForceReceived(dev, JRK_FORCE_MODE_DUTY_CYCLE, duty_cycle),
               "There was an error forcing the duty cycle.")

\* The arguments of the commands: the handle (null or not) with the outcome
\* of the transfer, the targets and the duty cycles.
HandleInputs == {<<FALSE, FALSE>>, <<TRUE, FALSE>>, <<FALSE, TRUE>>}

TargetInputs == {2048, MaxTarget}

DutyCycleInputs == {MinDutyCycle, 300, 700, -601}

\* The integral the PID algorithm may leave at the end of a period.
IntegralInputs == {0, 100}

\* The caller's call on the handle returns r.
Returned(op, args, r) ==
  /\ ncommands < MaxCommands
  /\ ncommands' = ncommands + 1
  /\ device' = r.device
  /\ herror' = r.error
  /\ hcall' = [op |-> op, args |-> args, sent |-> r.sent]
  /\ UNCHANGED <<nupdates, variables, verror, vcall, ret, vcopy, pid>>
  /\ UNCHANGED svars

SerialInput == jrk.ram_settings["input_mode"] = JRK_INPUT_MODE_SERIAL

SetTarget(handle_is_null, target, io_fails) ==
  /\ Returned("jrk_set_target",
              [handle_is_null |-> handle_is_null, target |-> target,
               io_fails |-> io_fails],
              jrk_set_target(device, SerialInput, handle_is_null, target,
                             io_fails))
  /\ UNCHANGED jrk

StopMotor(handle_is_null, io_fails) ==
  /\ Returned("jrk_stop_motor",
              [handle_is_null |-> handle_is_null, io_fails |-> io_fails],
              jrk_stop_motor(device, handle_is_null, io_fails))
  /\ UNCHANGED jrk

RunMotor(handle_is_null, io_fails) ==
  /\ Returned("jrk_run_motor",
              [handle_is_null |-> handle_is_null, io_fails |-> io_fails],
              jrk_run_motor(device, handle_is_null, io_fails))
  /\ UNCHANGED jrk

\* jrk_clear_errors(handle, error_flags): the optional error_flags receives
\* the error flags halting as they were before the command.
ClearErrors(handle_is_null, want_flags, io_fails) ==
  /\ LET r == jrk_clear_errors(device, handle_is_null, io_fails)
     IN  Returned("jrk_clear_errors",
                  [handle_is_null |-> handle_is_null, io_fails |-> io_fails,
                   error_flags |-> IF want_flags /\ r.error = NULL
                                     THEN Ptr(ErrorFlagsHalting(device))
                                     ELSE NULL],
                  r)
  /\ UNCHANGED jrk

ForceDutyCycleTarget(handle_is_null, duty_cycle, io_fails) ==
  /\ Returned("jrk_force_duty_cycle_target",
              [handle_is_null |-> handle_is_null, duty_cycle |-> duty_cycle,
               io_fails |-> io_fails],
              jrk_force_duty_cycle_target(device, handle_is_null, duty_cycle,
                                          io_fails))
  /\ UNCHANGED jrk

ForceDutyCycle(handle_is_null, duty_cycle, io_fails) ==
  /\ Returned("jrk_force_duty_cycle",
              [handle_is_null |-> handle_is_null, duty_cycle |-> duty_cycle,
               io_fails |-> io_fails],
              jrk_force_duty_cycle(device, handle_is_null, duty_cycle,
                                   io_fails))
  /\ UNCHANGED jrk

\* The motor loses its power: the device latches the "No power" error.
NoPower ==
  /\ Bit(ErrorFlagsHalting(device), JRK_ERROR_NO_POWER) = 0
  /\ device' = WithErrorFlagsHalting(device,
                 SetBit(ErrorFlagsHalting(device), JRK_ERROR_NO_POWER))
  /\ UNCHANGED <<nupdates, variables, verror, vcall, ret, vcopy>>
  /\ UNCHANGED <<jrk, herror, hcall, ncommands, pid>>
  /\ UNCHANGED svars

\* A PID period of the device ends: a reload of the settings that was asked
\* for happens now; the integral is 0 while the movement is forced and is
\* what the PID algorithm makes it while the device drives the motor.
EndOfPidPeriod(integral) ==
  /\ jrk' = IF jrk.reinitialize_pending
              THEN [jrk EXCEPT !.ram_settings = jrk.eeprom_settings,
                               !.reinitialize_pending = FALSE]
              ELSE jrk
  /\ device' =
       IF ForceMode(device) # JRK_FORCE_MODE_NONE
         THEN [device EXCEPT !["JRK_VAR_INTEGRAL"] = write_int16_t(0)]
       ELSE IF MotorOn(device)
         THEN [device EXCEPT !["JRK_VAR_INTEGRAL"] = write_int16_t(integral)]
       ELSE device
  /\ UNCHANGED <<nupdates, variables, verror, vcall, ret, vcopy>>
  /\ UNCHANGED <<herror, hcall, ncommands, pid>>
  /\ UNCHANGED svars

CmdNext ==
  \/ \E h \in HandleInputs, target \in TargetInputs :
       SetTarget(h[1], target, h[2])
  \/ \E h \in HandleInputs : StopMotor(h[1], h[2])
  \/ \E h \in HandleInputs : RunMotor(h[1], h[2])
  \/ \E h \in HandleInputs, want_flags \in BOOLEAN :
       ClearErrors(h[1], want_flags, h[2])
  \/ \E h \in HandleInputs, duty_cycle \in DutyCycleInputs :
       ForceDutyCycleTarget(h[1], duty_cycle, h[2])
  \/ \E h \in HandleInputs, duty_cycle \in DutyCycleInputs :
       ForceDutyCycle(h[1], duty_cycle, h[2])
  \/ NoPower
  \/ \E integral \in IntegralInputs : EndOfPidPeriod(integral)

CmdSpec == Init /\ [][CmdNext]_vars

\* ----------------------------------------- the settings of the device

\* A jrk_set_eeprom_settings and jrk_set_ram_settings that fix the caller's
\* object instead of a copy of it.
SetSettings_m(dev, which, handle_is_null, settings_, nomem, io_fails) ==
  IF handle_is_null
    THEN [error |-> Ptr(<<"Handle is null.">>), sent |-> NULL,
          settings |-> settings_, jrk |-> dev]
  ELSE IF settings_ = NULL
    THEN [error |-> Ptr(<<"Settings object is null.">>), sent |-> NULL,
          settings |-> settings_, jrk |-> dev]
  ELSE
    LET fixed_ == jrk_settings_fix(settings_.at).settings
    IN  [error |-> IF io_fails THEN Ptr(<<"The transfer failed.">>) ELSE NULL,
         sent |-> Ptr(fixed_), settings |-> Ptr(fixed_),
         jrk |-> IF io_fails THEN dev ELSE [dev EXCEPT ![which] = fixed_]]

\* jrk_set_eeprom_settings(handle, settings) and jrk_set_ram_settings(handle,
\* settings) on the device dev, which names the settings written: the
\* function copies the settings, fixes the copy and writes the copy to the
\* device.  The result is the returned error, the settings sent, the
\* caller's object after the call and the device.
SetSettings(dev, which, handle_is_null, settings_, nomem, io_fails) ==
  IF handle_is_null
    THEN [error |-> Ptr(<<"Handle is null.">>), sent |-> NULL,
          settings |-> settings_, jrk |-> dev]
  ELSE IF settings_ = NULL
    THEN [error |-> Ptr(<<"Settings object is null.">>), sent |-> NULL,
          settings |-> settings_, jrk |-> dev]
  ELSE IF nomem
    THEN [error |-> Ptr(<<"Failed to allocate memory.">>), sent |-> NULL,
          settings |-> settings_, jrk |-> dev]
  ELSE
    LET copy == settings_.at
        fixed_ == jrk_settings_fix(copy).settings
    IN  [error |-> IF io_fails THEN Ptr(<<"The transfer failed.">>) ELSE NULL,
         sent |-> Ptr(fixed_), settings |-> settings_,
         jrk |-> IF io_fails THEN dev ELSE [dev EXCEPT ![which] = fixed_]]

jrk_set_eeprom_settings(dev, handle_is_null, settings_, nomem, io_fails) ==
  SetSettings(dev, "eeprom_settings", handle_is_null, settings_, nomem,
              io_fails)

jrk_set_ram_settings(dev, handle_is_null, settings_, nomem, io_fails) ==
  SetSettings(dev, "ram_settings", handle_is_null, settings_, nomem, io_fails)

\* A jrk_reinitialize whose command reloads the settings at once.
jrk_reinitialize_m(dev, handle_is_null, io_fails) ==
  IF handle_is_null
    THEN [error |-> Ptr(<<"Handle is null.">>), sent |-> NULL, jrk |-> dev]
  ELSE IF io_fails
    THEN [error |-> Ptr(<<"The transfer failed.">>),
          sent |-> Ptr([command |-> "Reinitialize"]), jrk |-> dev]
  ELSE [error |-> NULL, sent |-> Ptr([command |-> "Reinitialize"]),
        jrk |-> [dev EXCEPT !.ram_settings = dev.eeprom_settings]]

\* jrk_reinitialize(handle) on the device dev: the device will reload its
\* settings from EEPROM at the end of the PID period.
jrk_reinitialize(dev, handle_is_null, io_fails) ==
  IF handle_is_null
    THEN [error |-> Ptr(<<"Handle is null.">>), sent |-> NULL, jrk |-> dev]
  ELSE IF io_fails
    THEN [error |-> Ptr(<<"The transfer failed.">>),
          sent |-> Ptr([command |-> "Reinitialize"]), jrk |-> dev]
  ELSE [error |-> NULL, sent |-> Ptr([command |-> "Reinitialize"]),
        jrk |-> [dev EXCEPT !.reinitialize_pending = TRUE]]

\* The arguments of the calls that write settings: the handle, the settings
\* pointer (null or the caller's object), the allocation and the transfer.
TransferInputs ==
  {<<FALSE, FALSE, FALSE, FALSE>>, <<TRUE, FALSE, FALSE, FALSE>>,
   <<FALSE, TRUE, FALSE, FALSE>>, <<FALSE, FALSE, TRUE, FALSE>>,
   <<FALSE, FALSE, FALSE, TRUE>>}

\* The setter calls of the caller that prepares settings for the device.
TransferSetInputs ==
  { <<"input_mode", 7>>, <<"serial_timeout", 655357>> }

\* The caller's call that writes settings returns r.
SettingsWritten(op, in, r) ==
  /\ ncommands < MaxCommands
  /\ ncommands' = ncommands + 1
  /\ jrk' = r.jrk
  /\ settings' = IF r.settings = NULL THEN settings ELSE r.settings.at
  /\ herror' = r.error
  /\ hcall' = [op |-> op,
               args |-> [handle_is_null |-> in[1], settings_is_null |-> in[2],
                         nomem |-> in[3], io_fails |-> in[4]],
               sent |-> r.sent]
  /\ UNCHANGED <<fixed, nsets, warnings, string, parsed, error, call, pid>>
  /\ UNCHANGED vvars

SetEepromSettings(in) ==
  SettingsWritten("jrk_set_eeprom_settings", in,
    jrk_set_eeprom_settings(jrk, in[1],
                            IF in[2] THEN NULL ELSE Ptr(settings),
                            in[3], in[4]))

SetRamSettings(in) ==
  SettingsWritten("jrk_set_ram_settings", in,
    jrk_set_ram_settings(jrk, in[1], IF in[2] THEN NULL ELSE Ptr(settings),
                         in[3], in[4]))

Reinitialize(handle_is_null, io_fails) ==
  /\ ncommands < MaxCommands
  /\ ncommands' = ncommands + 1
  /\ LET r == jrk_reinitialize(jrk, handle_is_null, io_fails)
     IN  /\ jrk' = r.jrk
         /\ herror' = r.error
         /\ hcall' = [op |-> "jrk_reinitialize",
                      args |-> [handle_is_null |-> handle_is_null,
                                io_fails |-> io_fails],
                      sent |-> r.sent]
  /\ UNCHANGED <<svars, pid>>
  /\ UNCHANGED vvars

TransferNext ==
  \/ SetProduct(JRK_PRODUCT_UMC04A_30V)
  \/ FillWithDefaults
  \/ \E in \in TransferSetInputs : SetField(in[1], in[2])
  \/ \E in \in TransferInputs : SetEepromSettings(in)
  \/ \E in \in TransferInputs : SetRamSettings(in)
  \/ \E h \in HandleInputs : Reinitialize(h[1], h[2])
  \/ EndOfPidPeriod(0)

TransferSpec == Init /\ [][TransferNext]_vars

\* ------------------------------------------------ pid_constant_control

\* QString::toDouble and QLocale::toDouble of the characters s: whether s is
\* a decimal number (an optional minus sign, digits, an optional decimal
\* point, digits, at least one digit) and the number: its sign, its integer
\* part and the first eighteen digits of its fraction as two numbers of nine
\* digits.  The number is 0 when s is not one.
toDouble(s) ==
  LET negative == s # <<>> /\ s[1] = "-"
      body == IF negative THEN Tail(s) ELSE s
      points == {i \in 1..Len(body) : body[i] = "."}
      point == IF points = {} THEN Len(body) + 1
               ELSE CHOOSE i \in points : \A j \in points : i <= j
      whole == SubSeq(body, 1, point - 1)
      fraction == SubSeq(body, point + 1, Len(body))
      ok == /\ whole = <<>> \/ IsDigits(whole)
            /\ fraction = <<>> \/ IsDigits(fraction)
            /\ whole # <<>> \/ fraction # <<>>
      digit(i) == IF i <= Len(fraction) THEN DigitValue(fraction[i]) ELSE 0
      nine(k) ==
        digit(k + 1) * 100000000 + digit(k + 2) * 10000000
          + digit(k + 3) * 1000000 + digit(k + 4) * 100000
          + digit(k + 5) * 10000 + digit(k + 6) * 1000 + digit(k + 7) * 100
          + digit(k + 8) * 10 + digit(k + 9)
  IN  IF ok
        THEN [ok |-> TRUE, negative |-> negative,
              whole |-> IF whole = <<>> THEN 0 ELSE ParseU(whole),
              high |-> nine(0), low |-> nine(9)]
        ELSE [ok |-> FALSE, negative |-> FALSE, whole |-> 0, high |-> 0,
              low |-> 0]

\* A validator that, like QDoubleValidator, leaves a number outside the range
\* in the Intermediate state.
validate_m(s, bottom, top, decimals) ==
  LET points == {i \in 1..Len(s) : s[i] = "."}
      d == toDouble(s)
  IN  IF s = <<>> THEN "Intermediate"
      ELSE IF points # {} /\ \A i \in points : Len(s) - i > decimals
        THEN "Invalid"
      ELSE IF ~d.ok THEN "Invalid"
      ELSE IF /\ ~d.negative \/ (d.whole = 0 /\ d.high = 0 /\ d.low = 0)
              /\ d.whole < top \/ (d.whole = top /\ d.high = 0 /\ d.low = 0)
        THEN "Acceptable"
      ELSE "Intermediate"

\* pid_constant_validator::validate(s, i) of a validator constructed with
\* bottom >= 0, top and decimals.
validate(s, bottom, top, decimals) ==
  LET points == {i \in 1..Len(s) : s[i] = "."}
      \* s.length() - s.indexOf(decimalPoint) - 1, for the first point
      charsAfterPoint(first) == Len(s) - first - 1
      d == toDouble(s)
      zero == d.whole = 0 /\ d.high = 0 /\ d.low = 0
  IN  IF s = <<>> THEN "Intermediate"
      ELSE IF /\ points # {}
              /\ charsAfterPoint((CHOOSE i \in points :
                                    \A j \in points : i <= j) - 1) > decimals
        THEN "Invalid"
      ELSE IF /\ d.ok
              /\ IF d.negative THEN zero /\ bottom <= 0
                 ELSE d.whole >= bottom
              /\ d.negative \/ d.whole < top \/ (d.whole = top /\ d.high = 0
                                                   /\ d.low = 0)
        THEN "Acceptable"
      ELSE "Invalid"

\* A slot that does not take back the doubling that went past 1023.
constant_lineedit_textEdited_past(text) ==
  LET input == toDouble(text)
      double(v) ==
        LET low == 2 * v.low
            high == 2 * v.high + low \div 1000000000
        IN  [v EXCEPT !.low = low % 1000000000,
                      !.high = high % 1000000000,
                      !.whole = 2 * v.whole + high \div 1000000000]
      rint(v) ==
        LET up == \/ v.high > 500000000
                  \/ v.high = 500000000 /\ v.low > 0
                  \/ v.high = 500000000 /\ v.low = 0 /\ v.whole % 2 = 1
            r == IF up THEN v.whole + 1 ELSE v.whole
        IN  IF v.negative THEN -r ELSE r
      for[j \in 0..18] ==
        IF j = 0 THEN [product |-> input, i |-> 0, break |-> FALSE]
        ELSE LET p == for[j - 1]
                 next == double(p.product)
             IN  IF p.break THEN p
                 ELSE IF rint(next) > 1023
                   THEN [p EXCEPT !.product = next, !.break = TRUE]
                 ELSE [product |-> next, i |-> j, break |-> FALSE]
      last == for[18]
      multiplier == rint(last.product)
      turns == {n \in 0..last.i : multiplier % 2 ^ n = 0}
      while == CHOOSE n \in turns : \A k \in turns : k <= n
  IN  [multiplier |-> multiplier \div 2 ^ while, exponent |-> last.i - while]

\* A slot that stops doubling the divisor one step early.
constant_lineedit_textEdited_m(text) ==
  LET input == toDouble(text)
      double(v) ==
        LET low == 2 * v.low
            high == 2 * v.high + low \div 1000000000
        IN  [v EXCEPT !.low = low % 1000000000,
                      !.high = high % 1000000000,
                      !.whole = 2 * v.whole + high \div 1000000000]
      rint(v) ==
        LET up == \/ v.high > 500000000
                  \/ v.high = 500000000 /\ v.low > 0
                  \/ v.high = 500000000 /\ v.low = 0 /\ v.whole % 2 = 1
            r == IF up THEN v.whole + 1 ELSE v.whole
        IN  IF v.negative THEN -r ELSE r
      for[j \in 0..18] ==
        IF j = 0 THEN [product |-> input, i |-> 0, break |-> FALSE]
        ELSE LET p == for[j - 1]
                 next == double(p.product)
             IN  IF p.break THEN p
                 ELSE IF rint(next) >= 1023
                   THEN [p EXCEPT !.break = TRUE]
                 ELSE [product |-> next, i |-> j, break |-> FALSE]
      last == for[18]
      multiplier == rint(last.product)
      turns == {n \in 0..last.i : multiplier % 2 ^ n = 0}
      while == CHOOSE n \in turns : \A k \in turns : k <= n
  IN  [multiplier |-> multiplier \div 2 ^ while, exponent |-> last.i - while]

\* pid_constant_control::constant_lineedit_textEdited(text): the multiplier
\* and the exponent it passes to set_values.  for[j] is the state after j
\* turns of the for loop, where product is largest_divisor * input; rint
\* rounds to the nearest integer and a tie to the even one; while is the
\* number of turns of the while loop, which divides the multiplier by 2 as
\* long as it is even and the exponent is not 0.
constant_lineedit_textEdited(text) ==
  LET input == toDouble(text)
      double(v) ==
        LET low == 2 * v.low
            high == 2 * v.high + low \div 1000000000
        IN  [v EXCEPT !.low = low % 1000000000,
                      !.high = high % 1000000000,
                      !.whole = 2 * v.whole + high \div 1000000000]
      rint(v) ==
        LET up == \/ v.high > 500000000
                  \/ v.high = 500000000 /\ v.low > 0
                  \/ v.high = 500000000 /\ v.low = 0 /\ v.whole % 2 = 1
            r == IF up THEN v.whole + 1 ELSE v.whole
        IN  IF v.negative THEN -r ELSE r
      for[j \in 0..18] ==
        IF j = 0 THEN [product |-> input, i |-> 0, break |-> FALSE]
        ELSE LET p == for[j - 1]
                 next == double(p.product)
             IN  IF p.break THEN p
                 ELSE IF rint(next) > 1023
                   THEN [p EXCEPT !.break = TRUE]
                 ELSE [product |-> next, i |-> j, break |-> FALSE]
      last == for[18]
      multiplier == rint(last.product)
      turns == {n \in 0..last.i : multiplier % 2 ^ n = 0}
      while == CHOOSE n \in turns : \A k \in turns : k <= n
  IN  [multiplier |-> multiplier \div 2 ^ while, exponent |-> last.i - while]

\* A set_constant that uses 7 decimal places for 0 as well.
set_constant_m(multiplier, exponent, half_up) ==
  LET precision == IF multiplier * 10000 < 2 ^ exponent THEN 7 ELSE 5
      scale == 10 ^ precision
      quotient == (multiplier * scale) \div 2 ^ exponent
      rest == (multiplier * scale) % 2 ^ exponent
      up == \/ 2 * rest > 2 ^ exponent
            \/ 2 * rest = 2 ^ exponent /\ (half_up \/ quotient % 2 = 1)
      number == IF up THEN quotient + 1 ELSE quotient
  IN  FormatU(number \div scale) \o <<".">> \o
        [i \in 1..precision |->
           DigitChar[(((number % scale) \div 10 ^ (precision - i)) % 10) + 1]]

\* pid_constant_control::set_constant(): the text it gives the line edit
\* when the spinboxes hold multiplier and exponent, which is
\* QString::number(multiplier / 2^exponent, 'f', precision).  A value half
\* way between two numbers of that precision is rounded up or to the even
\* one, depending on the Qt the program is built with (half_up).
set_constant(multiplier, exponent, half_up) ==
  LET precision ==
        IF multiplier * 10000 < 2 ^ exponent /\ multiplier # 0 THEN 7 ELSE 5
      scale == 10 ^ precision
      quotient == (multiplier * scale) \div 2 ^ exponent
      rest == (multiplier * scale) % 2 ^ exponent
      up == \/ 2 * rest > 2 ^ exponent
            \/ 2 * rest = 2 ^ exponent /\ (half_up \/ quotient % 2 = 1)
      number == IF up THEN quotient + 1 ELSE quotient
  IN  FormatU(number \div scale) \o <<".">> \o
        [i \in 1..precision |->
           DigitChar[(((number % scale) \div 10 ^ (precision - i)) % 10) + 1]]

\* A set_values that emits values_changed once, after both spinboxes are set.
set_values_m(p, multiplier, exponent, half_up) ==
  LET m == Max(0, Min(multiplier, 1023))
      e == Max(0, Min(exponent, 18))
  IN  [p EXCEPT
         !.multiplier = m,
         !.exponent = e,
         !.emitted = IF m # p.multiplier \/ e # p.exponent
                       THEN <<[multiplier |-> m, exponent |-> e]>> ELSE <<>>,
         !.text = IF p.focus THEN @ ELSE set_constant(m, e, half_up)]

\* A set_values that recalculates the constant whether or not the line edit
\* has the focus.
set_values_always(p, multiplier, exponent, half_up) ==
  LET m == Max(0, Min(multiplier, 1023))
      e == Max(0, Min(exponent, 18))
  IN  [p EXCEPT
         !.multiplier = m,
         !.exponent = e,
         !.emitted =
            (IF m # p.multiplier
               THEN <<[multiplier |-> m, exponent |-> p.exponent]>> ELSE <<>>)
            \o (IF e # p.exponent
                  THEN <<[multiplier |-> m, exponent |-> e]>> ELSE <<>>),
         !.text = set_constant(m, e, half_up)]

\* pid_constant_control::set_values(multiplier, exponent) on the control p:
\* QSpinBox::setValue bounds the value by the spinbox's range and, when the
\* value changes, runs the valueChanged slot, which emits values_changed with
\* the values the two spinboxes hold at that moment.
set_values(p, multiplier, exponent, half_up) ==
  LET m == Max(0, Min(multiplier, 1023))
      e == Max(0, Min(exponent, 18))
  IN  [p EXCEPT
         !.multiplier = m,
         !.exponent = e,
         !.emitted =
            (IF m # p.multiplier
               THEN <<[multiplier |-> m, exponent |-> p.exponent]>> ELSE <<>>)
            \o (IF e # p.exponent
                  THEN <<[multiplier |-> m, exponent |-> e]>> ELSE <<>>),
         !.text = IF p.focus THEN @ ELSE set_constant(m, e, half_up)]

\* The arguments of set_values and the values a user gives a spinbox.
PidInputs ==
  { <<0, 0>>, <<5, 3>>, <<1023, 0>>, <<1, 6>>, <<26, 18>>,
    <<2000, 25>>, <<-3, -1>> }

\* The texts a user gives the line edit.
TextInputs ==
  { <<>>,
    <<"2", ".", "2", "5">>,
    <<"1", "0", "2", "3">>,
    <<"1", "0", "2", "4">>,
    <<"0", ".", "0", "0", "0", "0", "0", "0", "1">>,
    <<"0", ".", "0", "0", "0", "0", "0", "0", "0", "1">>,
    <<"-", "0">>,
    <<"-", "1">>,
    <<"1", "a">>,
    <<".">>,
    <<"5", ".">>,
    <<"0", ".", "0", "1", "5", "6", "2", "5">>,
    <<"1", "0", "2", "2", ".", "5">> }

\* The program calls set_values.
SetValues(multiplier, exponent, half_up) ==
  /\ pid' = [set_values(pid, multiplier, exponent, half_up) EXCEPT
               !.call = [op |-> "set_values", multiplier |-> multiplier,
                         exponent |-> exponent]]
  /\ UNCHANGED <<svars, vvars, jrk, herror, hcall, ncommands>>

\* The user gives the line edit the focus.
FocusIn ==
  /\ ~pid.focus
  /\ pid' = [pid EXCEPT !.focus = TRUE, !.emitted = <<>>,
                        !.call = [op |-> "focusIn"]]
  /\ UNCHANGED <<svars, vvars, jrk, herror, hcall, ncommands>>

\* The user changes the text of the line edit.  The line edit asks its
\* validator: it keeps the text it had when the new one is Invalid, and takes
\* the new text and emits textEdited otherwise.
TextEdited(text) ==
  /\ pid.focus
  /\ text # pid.text
  /\ LET state == validate(text, 0, 1023, 7)
         values == constant_lineedit_textEdited(text)
     IN  pid' =
           IF state = "Invalid"
             THEN [pid EXCEPT !.emitted = <<>>,
                              !.call = [op |-> "rejected", text |-> text,
                                        state |-> state]]
             ELSE [set_values([pid EXCEPT !.text = text], values.multiplier,
                              values.exponent, FALSE) EXCEPT
                     !.call = [op |-> "textEdited", text |-> text,
                               state |-> state,
                               multiplier |-> values.multiplier,
                               exponent |-> values.exponent]]
  /\ UNCHANGED <<svars, vvars, jrk, herror, hcall, ncommands>>

\* The user presses Return in the line edit or takes the focus away from it:
\* the line edit emits editingFinished if its validator finds the text
\* Acceptable.
EditingFinished(lose_focus, half_up) ==
  /\ pid.focus
  /\ pid' = IF validate(pid.text, 0, 1023, 7) = "Acceptable"
              THEN [pid EXCEPT
                      !.text = set_constant(pid.multiplier, pid.exponent,
                                            half_up),
                      !.focus = ~lose_focus, !.emitted = <<>>,
                      !.call = [op |-> "editingFinished"]]
              ELSE [pid EXCEPT
                      !.focus = ~lose_focus, !.emitted = <<>>,
                      !.call = [op |-> "none"]]
  /\ UNCHANGED <<svars, vvars, jrk, herror, hcall, ncommands>>

\* The user changes the value of a spinbox while the line edit has no focus:
\* the valueChanged slot of the spinbox emits values_changed.
SpinboxEdited(spinbox, value) ==
  /\ ~pid.focus
  /\ LET v == Max(0, Min(value, IF spinbox = "multiplier" THEN 1023 ELSE 18))
     IN  /\ v # pid[spinbox]
         /\ pid' = [pid EXCEPT
                      ![spinbox] = v,
                      !.emitted =
                         <<[[multiplier |-> pid.multiplier,
                             exponent |-> pid.exponent] EXCEPT ![spinbox] = v]>>,
                      !.call = [op |-> "valueChanged", spinbox |-> spinbox]]
  /\ UNCHANGED <<svars, vvars, jrk, herror, hcall, ncommands>>

PidNext ==
  \/ \E in \in PidInputs, half_up \in BOOLEAN :
       SetValues(in[1], in[2], half_up)
  \/ FocusIn
  \/ \E text \in TextInputs : TextEdited(text)
  \/ \E lose_focus, half_up \in BOOLEAN : EditingFinished(lose_focus, half_up)
  \/ \E in \in PidInputs :
       SpinboxEdited("multiplier", in[1]) \/ SpinboxEdited("exponent", in[2])

PidSpec == Init /\ [][PidNext]_vars

\* The decimal notation of multiplier / 2^exponent in full: the integer part
\* and, when exponent > 0, a decimal point and exponent digits.
ExactText(multiplier, exponent) ==
  LET rest[k \in 0..18] ==
        IF k = 0 THEN multiplier % 2 ^ exponent
        ELSE (10 * rest[k - 1]) % 2 ^ exponent
  IN  FormatU(multiplier \div 2 ^ exponent)
        \o (IF exponent = 0 THEN <<>> ELSE <<".">>)
        \o [k \in 1..exponent |->
              DigitChar[((10 * rest[k - 1]) \div 2 ^ exponent) + 1]]

\* The multipliers whose constants are given to the line edit in full.
ExactMultipliers == {0, 682, 1023}

\* The line edit emits textEdited with the full decimal notation of
\* multiplier / 2^exponent.
TextEditedExactly(multiplier, exponent) ==
  /\ pid.focus
  /\ \E text \in {ExactText(multiplier, exponent)} :
       \E values \in {constant_lineedit_textEdited(text)} :
         pid' = [set_values([pid EXCEPT !.text = text], values.multiplier,
                            values.exponent, FALSE) EXCEPT
                   !.call = [op |-> "textEdited", text |-> text,
                             of |-> [multiplier |-> multiplier,
                                     exponent |-> exponent],
                             multiplier |-> values.multiplier,
                             exponent |-> values.exponent]]
  /\ UNCHANGED <<svars, vvars, jrk, herror, hcall, ncommands>>

ExactNext ==
  \/ FocusIn
  \/ \E multiplier \in ExactMultipliers, exponent \in 0..18 :
       TextEditedExactly(multiplier, exponent)

ExactSpec == Init /\ [][ExactNext]_vars

\* ------------------------------------------------ properties of the fix

\* The settings whose value the fixing pass changes between s and t, in
\* declaration order.
Corrected(s, t) == SelectSeq(FieldOrder, LAMBDA f : s[f] # t[f])

\* C1: jrk_settings_fix is idempotent.  A settings object with a recognized
\* product that has passed the fix is a fixed point of it: a second fix
\* changes no field (and so reports nothing).
C1_FixIdempotent ==
  (fixed /\ settings["product"] \in RecognizedProducts)
    => jrk_settings_fix(settings).settings = settings

\* A fix that corrected two settings has been applied, and its result is
\* what the second fix is applied to.
C1_Witness ==
  /\ fixed /\ settings["product"] \in RecognizedProducts
  /\ settings["serial_timeout"] = JRK_MAX_ALLOWED_SERIAL_TIMEOUT
  /\ settings["brake_duration_forward"] = 1270

\* C2: after jrk_settings_fix on a settings object with a valid product,
\* whatever the setters stored, every enumerated setting holds a code of its
\* table, input_maximum >= input_minimum, input_neutral_minimum <=
\* input_neutral_maximum, serial_timeout is a multiple of 10 and at most
\* 655350, the brake durations are multiples of 5 and at most 1275, the PID
\* multipliers are at most 1023 and the exponents at most 18, the current
\* offset calibration is within -800..800, and serial_device_number has its
\* bits above bit 6 clear unless 14-bit device numbers are enabled (then its
\* bits above bit 13).
C2_FixedInRange ==
  (fixed /\ settings["product"] \in RecognizedProducts) =>
    /\ \A f \in DOMAIN NameTable :
         settings[f] >= 0 /\ settings[f] < Len(NameTable[f])
    /\ settings["input_maximum"] >= settings["input_minimum"]
    /\ settings["input_neutral_minimum"] <= settings["input_neutral_maximum"]
    /\ settings["serial_timeout"] % 10 = 0
    /\ settings["serial_timeout"] <= 655350
    /\ \A f \in {"brake_duration_forward", "brake_duration_reverse"} :
         settings[f] % 5 = 0 /\ settings[f] <= 1275
    /\ \A f \in {"proportional_multiplier", "integral_multiplier",
                 "derivative_multiplier"} : settings[f] <= 1023
    /\ \A f \in {"proportional_exponent", "integral_exponent",
                 "derivative_exponent"} : settings[f] <= 18
    /\ settings["current_offset_calibration"] >= -800
    /\ settings["current_offset_calibration"] <= 800
    /\ settings["serial_device_number"] <
         (IF settings["serial_enable_14bit_device_number"] THEN 16384 ELSE 128)

\* The fix has brought a device number with high bits set back to 7 bits and
\* raised the maximum of the input to its minimum.
C2_Witness ==
  /\ fixed /\ settings["product"] \in RecognizedProducts
  /\ nsets = 2
  /\ settings["serial_device_number"] = 5
  /\ ~settings["serial_enable_14bit_device_number"]
  /\ settings["input_minimum"] = 100 /\ settings["input_maximum"] = 100

\* C3: a jrk_settings_fix that is asked for warnings returns a text (never
\* null) made of one newline-terminated line for each setting it corrected,
\* in the order of the corrections; the text is empty exactly when the fix
\* changed no setting, as it is for the fix of an already fixed object.
C3_Warnings ==
  [][ (call.op = "none" /\ call'.op = "jrk_settings_fix"
         /\ call'.want_warnings) =>
        /\ warnings' # NULL
        /\ LET w == warnings'.at
               changed == Corrected(settings, settings')
           IN  /\ Len(w) = 3 * Len(changed)
               /\ \A k \in 1..Len(changed) :
                    /\ w[3 * k - 1] = changed[k]
                    /\ w[3 * k] = "\n"
                    /\ w[3 * k - 2] # "\n"
               /\ (w = <<>>) <=> (settings' = settings)
               /\ fixed => w = <<>> ]_vars

\* A fix has returned two warnings.
C3_Witness ==
  /\ call.op = "jrk_settings_fix" /\ call.want_warnings
  /\ warnings # NULL /\ Len(warnings.at) = 6

\* --------------------------------------- properties of the settings file

\* The key of each line of the text t that is not a comment, in order.
Keys(t) ==
  LET ends == LineEnds(t)
      all == [k \in 1..Len(ends) |-> Line(t, ends, k)]
      lines == SelectSeq(all, LAMBDA line : ~IsComment(line))
  IN  [k \in 1..Len(lines) |-> lines[k][1]]

HardCurrentKeys ==
  {"hard_overcurrent_threshold", "encoded_hard_current_limit_forward",
   "encoded_hard_current_limit_reverse"}

SoftCurrentKeys ==
  {"soft_current_regulation_level_forward",
   "soft_current_regulation_level_reverse"}

C5_TextShape ==
  (call.op = "jrk_settings_to_string" /\ string # NULL) =>
    LET t == string.at
        ends == LineEnds(t)
        first == CHOOSE k \in 1..Len(ends) :
                   /\ ~IsComment(Line(t, ends, k))
                   /\ \A j \in 1..(k - 1) : IsComment(Line(t, ends, j))
        name == jrk_look_up_product_name_short(settings["product"])
    IN  /\ Len(t) > 0 /\ t[Len(t)] = "\n"
        /\ t[1] = "# Pololu jrk settings file."
        /\ IsComment(Line(t, ends, 1))
        /\ first > 1
        /\ Line(t, ends, first)
             = IF name = "" THEN <<"product", ": ">>
                            ELSE <<"product", ": ", name>>

\* The text of a settings object for product 1 has been produced.
C5_Witness ==
  /\ call.op = "jrk_settings_to_string" /\ string # NULL
  /\ settings["product"] = JRK_PRODUCT_UMC04A_30V
  /\ nsets = 1

\* C6: product gating.  The text holds the three hard current keys exactly
\* when the product is not JRK_PRODUCT_UMC06A and the two soft current
\* regulation keys exactly when it is, so exactly one of the groups is in
\* it; the other keys are in it for every product, in one fixed order.
C6_ProductGating ==
  (call.op = "jrk_settings_to_string" /\ string # NULL) =>
    LET keys == Keys(string.at)
        keyset == {keys[k] : k \in DOMAIN keys}
        umc06a == settings["product"] = JRK_PRODUCT_UMC06A
    IN  /\ \A f \in HardCurrentKeys : f \in keyset <=> ~umc06a
        /\ \A f \in SoftCurrentKeys : f \in keyset <=> umc06a
        /\ SelectSeq(keys, LAMBDA f :
                             f \notin HardCurrentKeys \cup SoftCurrentKeys)
             = <<"product">> \o
               SelectSeq(FieldOrder, LAMBDA f :
                           f \notin HardCurrentKeys \cup SoftCurrentKeys)

\* The text of a settings object for the umc06a has been produced.
C6_Witness ==
  /\ call.op = "jrk_settings_to_string" /\ string # NULL
  /\ settings["product"] = JRK_PRODUCT_UMC06A
  /\ ~fixed

\* C7: jrk_settings_to_string returns an error and gives no string when the
\* output pointer is null, when the settings pointer is null and when the
\* memory runs out; when the output pointer is not null it holds a string
\* on return exactly when the returned error is null; and the call leaves
\* the settings object as it was.
C7_ToStringErrors ==
  [][ (call.op = "none" /\ call'.op = "jrk_settings_to_string") =>
        /\ (call'.string_is_null \/ call'.settings_is_null \/ call'.nomem)
             => (error' # NULL /\ string' = NULL)
        /\ ~call'.string_is_null => (string' # NULL <=> error' = NULL)
        /\ settings' = settings ]_vars

\* A call has run out of memory and a call has got a null settings pointer.
C7_Witness ==
  /\ call.op = "jrk_settings_to_string"
  /\ call.nomem \/ call.settings_is_null
  /\ error # NULL /\ string = NULL /\ nsets = 2

\* ------------------------------------------ properties of the variables

\* C8: a jrk_get_variables that is given an output pointer leaves a
\* variables object in it exactly when it returns no error; with a null
\* handle, a failed allocation or a failed read of the device the pointer is
\* NULL and an error is returned; on success the object is the decoding of
\* the whole variables buffer of the device, which was read with one command
\* for index 0 and JRK_VARIABLES_SIZE bytes carrying the caller's flags.
C8_GetVariables ==
  (vcall.op = "jrk_get_variables" /\ ~vcall.variables_is_null) =>
    /\ variables # NULL <=> verror = NULL
    /\ (vcall.handle_is_null \/ vcall.nomem \/ vcall.io_fails)
         => (variables = NULL /\ verror # NULL)
    /\ verror = NULL =>
         /\ \A f \in VarFields :
              variables.at[f] = DecodedField(device, f)
         /\ variables.at["force_mode"] = device["JRK_VAR_FLAG_BYTE1"][1] % 4
         /\ \A pin \in 0..(JRK_CONTROL_PIN_COUNT - 1) :
              variables.at["pin_info"][pin]
                = DecodedPin(device, ZeroVariables["pin_info"][pin], pin)
         /\ vcall.request = Ptr([index |-> 0, length |-> JRK_VARIABLES_SIZE,
                                 flags |-> vcall.flags])

\* A call with flags has returned the variables of a device whose variables
\* have changed.
C8_Witness ==
  /\ vcall.op = "jrk_get_variables" /\ variables # NULL /\ verror = NULL
  /\ vcall.flags = 5 /\ nupdates = 2
  /\ variables.at["input"] = 4095

\* C9 as the specification states it: every getter called on a null
\* variables object returns zero, the per-pin getters for every pin.
C9_AllGettersZero ==
  (ret # NULL /\ variables = NULL) =>
    /\ \A f \in VarFields : ret.at.get[f] = 0
    /\ ret.at.error = 0
    /\ ret.at.force_mode = 0
    /\ \A pin \in PinInputs :
         /\ ret.at.analog_reading[pin] = 0
         /\ ret.at.digital_reading[pin] = 0
         /\ ret.at.pin_state[pin] = 0

\* C9: every getter called on a null variables object returns zero, the
\* per-pin getters jrk_variables_get_digital_reading and
\* jrk_variables_get_pin_state for every pin, except
\* jrk_variables_get_analog_reading, which returns 0xFFFF (the reading is
\* not available) for every pin.
C9_NullGetters ==
  (ret # NULL /\ variables = NULL) =>
    /\ \A f \in VarFields : ret.at.get[f] = 0
    /\ ret.at.error = 0
    /\ ret.at.force_mode = 0
    /\ \A pin \in PinInputs :
         /\ ret.at.analog_reading[pin] = 65535
         /\ ret.at.digital_reading[pin] = 0
         /\ ret.at.pin_state[pin] = 0

\* The getters have been called on the null pointer that a failed
\* jrk_get_variables left.
C9_Witness ==
  /\ ret # NULL /\ variables = NULL
  /\ vcall.op = "jrk_get_variables" /\ verror # NULL
  /\ ~vcall.variables_is_null

\* C10: whatever the variables buffer holds, the analog reading of SCL, TX,
\* RX, RC, AUX and FBT is 0xFFFF, the analog readings of SDA and FBA are the
\* 16-bit little-endian values at JRK_VAR_ANALOG_READING_SDA and
\* JRK_VAR_ANALOG_READING_FBA, and a pin number out of range reads as 0xFFFF.
C10_AnalogReadings ==
  (ret # NULL /\ variables # NULL) =>
    /\ \A pin \in {JRK_PIN_NUM_SCL, JRK_PIN_NUM_TX, JRK_PIN_NUM_RX,
                   JRK_PIN_NUM_RC, JRK_PIN_NUM_AUX, JRK_PIN_NUM_FBT} :
         ret.at.analog_reading[pin] = 65535
    /\ ret.at.analog_reading[JRK_PIN_NUM_SDA]
         = device["JRK_VAR_ANALOG_READING_SDA"][1]
             + 256 * device["JRK_VAR_ANALOG_READING_SDA"][2]
    /\ ret.at.analog_reading[JRK_PIN_NUM_FBA]
         = device["JRK_VAR_ANALOG_READING_FBA"][1]
             + 256 * device["JRK_VAR_ANALOG_READING_FBA"][2]
    /\ \A pin \in PinInputs :
         pin >= JRK_CONTROL_PIN_COUNT => ret.at.analog_reading[pin] = 65535

\* The analog readings of a device with readings on SDA and FBA have been
\* read.
C10_Witness ==
  /\ ret # NULL /\ variables # NULL
  /\ ret.at.analog_reading[JRK_PIN_NUM_SDA] = 4660
  /\ ret.at.analog_reading[JRK_PIN_NUM_FBA] = 65534

\* C11: for every variables buffer and every control pin i (SCL, SDA, TX,
\* RX, RC, AUX, FBA, FBT), the digital reading of pin i is bit i of the byte
\* at JRK_VAR_DIGITAL_READINGS, (byte >> i) & 1, whatever the rest of the
\* buffer holds.
C11_DigitalReadings ==
  (ret # NULL /\ variables # NULL) =>
    \A pin \in {JRK_PIN_NUM_SCL, JRK_PIN_NUM_SDA, JRK_PIN_NUM_TX,
                JRK_PIN_NUM_RX, JRK_PIN_NUM_RC, JRK_PIN_NUM_AUX,
                JRK_PIN_NUM_FBA, JRK_PIN_NUM_FBT} :
      ret.at.digital_reading[pin]
        = (device["JRK_VAR_DIGITAL_READINGS"][1] \div (2 ^ pin)) % 2

\* The digital readings of a device whose digital readings byte is 0xA5 and
\* whose flag byte is not zero have been read: pins 0, 2, 5 and 7 are high.
C11_Witness ==
  /\ ret # NULL /\ variables # NULL
  /\ device["JRK_VAR_DIGITAL_READINGS"] = <<165>>
  /\ device["JRK_VAR_FLAG_BYTE1"] # <<0>>
  /\ ret.at.digital_reading[JRK_PIN_NUM_SCL] = 1
  /\ ret.at.digital_reading[JRK_PIN_NUM_SDA] = 0
  /\ ret.at.digital_reading[JRK_PIN_NUM_FBT] = 1

\* C12: for every variables buffer, the decoded force_mode is the low two
\* bits of the byte at JRK_VAR_FLAG_BYTE1, so it is in 0..3, and the decoded
\* pid_period_exceeded is the low bit of the byte at
\* JRK_VAR_PID_PERIOD_EXCEEDED; the higher bits of those bytes change neither.
C12_FlagBits ==
  (ret # NULL /\ variables # NULL) =>
    LET flag_byte == device["JRK_VAR_FLAG_BYTE1"][1]
        period_byte == device["JRK_VAR_PID_PERIOD_EXCEEDED"][1]
    IN  /\ ret.at.force_mode \in 0..3
        /\ ret.at.force_mode = flag_byte - 4 * (flag_byte \div 4)
        /\ ret.at.get["pid_period_exceeded"] \in {0, 1}
        /\ ret.at.get["pid_period_exceeded"]
             = period_byte - 2 * (period_byte \div 2)

\* A buffer whose flag byte is 0xFE and whose pid_period_exceeded byte is 3
\* has been decoded and read: the force mode is 2 and the flag is set, the
\* higher bits of both bytes being set as well.
C12_Witness ==
  /\ ret # NULL /\ variables # NULL
  /\ device["JRK_VAR_FLAG_BYTE1"] = <<254>>
  /\ device["JRK_VAR_PID_PERIOD_EXCEEDED"] = <<3>>
  /\ ret.at.force_mode = 2
  /\ ret.at.get["pid_period_exceeded"] = 1

\* C13 (as stated): for every variables object, whatever 16-bit unsigned
\* values scaled_feedback and target hold, jrk_variables_get_error returns
\* the signed difference scaled_feedback - target.
C13_SignedDifference ==
  (ret # NULL /\ variables # NULL) =>
    ret.at.error = variables.at["scaled_feedback"] - variables.at["target"]

\* C13 (amended): jrk_variables_get_error returns scaled_feedback - target,
\* computed from the two stored fields, converted to int16_t: the signed
\* difference itself when it lies in -32768..32767, and that difference plus
\* or minus 65536 otherwise.
C13_Error ==
  (ret # NULL /\ variables # NULL) =>
    LET scaled_feedback == variables.at["scaled_feedback"]
        target == variables.at["target"]
        d == scaled_feedback - target
    IN  /\ scaled_feedback \in 0..65535
        /\ target \in 0..65535
        /\ ret.at.error \in -32768..32767
        /\ ret.at.error = IF d > 32767 THEN d - 65536
                          ELSE IF d < -32768 THEN d + 65536
                          ELSE d

\* The error of an object with scaled_feedback 0x8000 and target 0xFFFF has
\* been read: it is -32767, the signed difference.
C13_Witness ==
  /\ ret # NULL /\ variables # NULL
  /\ variables.at["scaled_feedback"] = 32768
  /\ variables.at["target"] = 65535
  /\ ret.at.error = -32767

\* The settings of the scenario of C14: a new object given product code 1,
\* filled with the defaults, whose input_error_minimum setter was then called
\* with 70000.
C14_Settings ==
  jrk_settings_set(
    jrk_settings_fill_with_defaults(
      jrk_settings_set_product(jrk_settings_create, JRK_PRODUCT_UMC04A_30V)),
    "input_error_minimum", 70000)

Received(names) ==
  /\ ncommands' = ncommands + 1
  /\ herror' = NULL
  /\ hcall'.sent # NULL
  /\ hcall'.sent.at.command \in names

C18_AwaitingMeansNotForced ==
  LET read == write_buffer_to_variables(device, ZeroVariables)
  IN  /\ read["force_mode"] \in {JRK_FORCE_MODE_NONE,
                                 JRK_FORCE_MODE_DUTY_CYCLE_TARGET,
                                 JRK_FORCE_MODE_DUTY_CYCLE}
      /\ (read["error_flags_halting"] \div 2 ^ JRK_ERROR_AWAITING_COMMAND) % 2 = 1
           => read["force_mode"] = JRK_FORCE_MODE_NONE
      /\ (hcall.op = "jrk_stop_motor" /\ herror = NULL)
           => /\ read["force_mode"] = JRK_FORCE_MODE_NONE
              /\ AwaitingCommand(device)

\* jrk_stop_motor has been received by a device whose duty cycle target was
\* being forced to -600: the forced value is still in the variables, the
\* force mode is NONE.
C18_Witness ==
  /\ hcall.op = "jrk_stop_motor" /\ herror = NULL
  /\ AwaitingCommand(device)
  /\ DecodedField(device, "duty_cycle_target") = -600
  /\ ForceMode(device) = JRK_FORCE_MODE_NONE

\* ------------------------------------ properties of the device's settings

\* The settings s satisfy the constraints of jrk_settings_fix: the fix has
\* nothing to correct in them, the enumerated settings hold codes of their
\* tables and the numbers are within their limits.
SatisfiesFix(s) ==
  /\ Corrected(s, jrk_settings_fix(s).settings) = <<>>
  /\ \A f \in DOMAIN NameTable : s[f] >= 0 /\ s[f] < Len(NameTable[f])
  /\ s["input_maximum"] >= s["input_minimum"]
  /\ s["input_neutral_minimum"] <= s["input_neutral_maximum"]
  /\ s["serial_timeout"] % 10 = 0 /\ s["serial_timeout"] <= 655350
  /\ \A f \in {"proportional_multiplier", "integral_multiplier",
               "derivative_multiplier"} : s[f] <= 1023

\* C19: jrk_set_eeprom_settings and jrk_set_ram_settings never modify the
\* caller's settings object; what they send to the device is a fixed copy of
\* it, so the settings written always satisfy the constraints of the fix,
\* also when the caller's object does not, and the device stores what was
\* sent.
C19_FixedCopySent ==
  [][ (/\ ncommands' = ncommands + 1
       /\ hcall'.op \in {"jrk_set_eeprom_settings", "jrk_set_ram_settings"}) =>
        /\ settings' = settings
        /\ hcall'.sent # NULL =>
             /\ SatisfiesFix(hcall'.sent.at)
             /\ \A f \in DOMAIN settings :
                  hcall'.sent.at[f] # settings[f] => ~SatisfiesFix(settings)
        /\ herror' = NULL =>
             /\ hcall'.sent # NULL
             /\ IF hcall'.op = "jrk_set_eeprom_settings"
                  THEN /\ jrk'.eeprom_settings = hcall'.sent.at
                       /\ jrk'.ram_settings = jrk.ram_settings
                  ELSE /\ jrk'.ram_settings = hcall'.sent.at
                       /\ jrk'.eeprom_settings = jrk.eeprom_settings
        /\ herror' # NULL => jrk' = jrk ]_vars

\* jrk_set_eeprom_settings has written settings whose serial timeout the
\* caller set to 655357 and whose input mode the caller set to 7: the caller
\* still holds those values, the EEPROM holds 655350 and a valid input mode.
C19_Witness ==
  /\ hcall.op = "jrk_set_eeprom_settings" /\ herror = NULL
  /\ settings["serial_timeout"] = 655357
  /\ settings["input_mode"] = 7
  /\ ~SatisfiesFix(settings)
  /\ jrk.eeprom_settings["serial_timeout"] = 655350
  /\ jrk.eeprom_settings["input_mode"] < 3

\* C20: settings written with jrk_set_eeprom_settings do not change the
\* settings in effect (the RAM settings); jrk_reinitialize does not change
\* them at the moment the command is received either, it makes the device
\* reload them at the end of its PID period, and once that period ends the
\* RAM settings equal the EEPROM settings.  The RAM settings change on no
\* other step, except by jrk_set_ram_settings.
C20_ReloadAtEndOfPeriod ==
  [][ /\ (ncommands' = ncommands + 1 /\ hcall'.op = "jrk_set_eeprom_settings")
           => /\ jrk'.ram_settings = jrk.ram_settings
              /\ jrk'.reinitialize_pending = jrk.reinitialize_pending
      /\ (ncommands' = ncommands + 1 /\ hcall'.op = "jrk_reinitialize")
           => /\ jrk'.ram_settings = jrk.ram_settings
              /\ jrk'.eeprom_settings = jrk.eeprom_settings
              /\ herror' = NULL => jrk'.reinitialize_pending
      /\ jrk'.ram_settings # jrk.ram_settings
           => \/ /\ ncommands' = ncommands + 1
                 /\ hcall'.op = "jrk_set_ram_settings"
              \/ /\ ncommands' = ncommands
                 /\ jrk.reinitialize_pending
      /\ (ncommands' = ncommands /\ jrk.reinitialize_pending /\ jrk' # jrk)
           => /\ jrk'.ram_settings = jrk.eeprom_settings
              /\ jrk'.eeprom_settings = jrk.eeprom_settings
              /\ ~jrk'.reinitialize_pending ]_vars

\* Settings other than the factory's were written to EEPROM, jrk_reinitialize
\* was sent, these being the only two calls on the handle, and the PID period
\* has ended: the RAM settings are the new EEPROM settings.
C20_Witness ==
  /\ ncommands = 2
  /\ hcall.op = "jrk_reinitialize" /\ herror = NULL
  /\ ~jrk.reinitialize_pending
  /\ jrk.ram_settings = jrk.eeprom_settings
  /\ jrk.ram_settings # FactoryDevice.ram_settings

\* -------------------------------------------- properties of the PID control

\* C21: for every text the validator of the line edit accepts, the values
\* that constant_lineedit_textEdited passes to set_values are a multiplier in
\* 0..1023 and an exponent in 0..18.
C21_ValuesInRange ==
  pid.call.op = "textEdited"
    /\ validate(pid.call.text, 0, 1023, 7) = "Acceptable" =>
      /\ pid.call.multiplier \in 0..1023
      /\ pid.call.exponent \in 0..18

\* The user has typed 1022.5, which the validator accepts, and textEdited has
\* passed the multiplier 1022 and the exponent 0.
C21_Witness ==
  /\ pid.call.op = "textEdited"
  /\ pid.call.text = <<"1", "0", "2", "2", ".", "5">>
  /\ validate(pid.call.text, 0, 1023, 7) = "Acceptable"
  /\ pid.call.multiplier = 1022
  /\ pid.call.exponent = 0

\* The line edit shows a text that set_constant has just written.
Rendered ==
  \/ pid.call.op = "editingFinished"
  \/ pid.call.op = "set_values" /\ ~pid.focus

\* The number of characters of a text after its decimal point.
Decimals(text) ==
  Len(text) - (CHOOSE i \in 1..Len(text) : text[i] = ".")

\* The text is multiplier / 2^exponent rounded to the given number of decimal
\* places.
Renders(text, multiplier, exponent, decimals) ==
  /\ Len(text) >= decimals + 2
  /\ text[Len(text) - decimals] = "."
  /\ LET digits == SubSeq(text, 1, Len(text) - decimals - 1)
                     \o SubSeq(text, Len(text) - decimals + 1, Len(text))
         number == ParseU(digits)
         exact == multiplier * 10 ^ decimals
     IN  /\ IsDigits(digits)
         /\ 2 * (number * 2 ^ exponent - exact) <= 2 ^ exponent
         /\ 2 * (exact - number * 2 ^ exponent) <= 2 ^ exponent

\* C22 as stated: set_constant renders the value with 7 decimal places
\* whenever it is below 0.0001 and with 5 decimal places otherwise.  The value
\* 0 refutes it.
C22_SevenBelow ==
  Rendered =>
    Renders(pid.text, pid.multiplier, pid.exponent,
            IF pid.multiplier * 10000 < 2 ^ pid.exponent THEN 7 ELSE 5)

\* C22, amended: set_constant renders the value multiplier / 2^exponent with
\* 5 decimal places (1023 and 0 give 1023.00000), except that every value
\* below 0.0001 other than 0 is rendered with 7 decimal places.
C22_SevenBelowExceptZero ==
  Rendered =>
    /\ Renders(pid.text, pid.multiplier, pid.exponent,
               IF pid.multiplier * 10000 < 2 ^ pid.exponent
                    /\ pid.multiplier # 0
                 THEN 7 ELSE 5)
    /\ pid.multiplier = 1023 /\ pid.exponent = 0 =>
         pid.text = <<"1", "0", "2", "3", ".", "0", "0", "0", "0", "0">>

\* set_values(26, 18) has rendered 26 / 2^18, which is below 0.0001, with 7
\* decimal places.
C22_Witness ==
  /\ Rendered
  /\ pid.multiplier = 26
  /\ pid.exponent = 18
  /\ pid.text = <<"0", ".", "0", "0", "0", "0", "9", "9", "2">>

\* The text is a number in plain decimal notation: digits with at most one
\* decimal point and an optional minus sign in front.
IsNumber(text) ==
  LET body == IF text # <<>> /\ text[1] = "-" THEN Tail(text) ELSE text
      points == {i \in 1..Len(body) : body[i] = "."}
  IN  /\ Cardinality(points) <= 1
      /\ \A i \in 1..Len(body) : i \in points \/ IsDigits(<<body[i]>>)
      /\ Len(body) > Cardinality(points)

\* C23: pid_constant_validator::validate returns Intermediate only for the
\* empty text; a text that is not empty is Acceptable if it is a number of
\* at most `decimals` digits after the point that lies within [bottom, top],
\* and Invalid otherwise.
C23_Validate ==
  pid.call.op \in {"textEdited", "rejected"} =>
    LET text == pid.call.text
        value == toDouble(text)
        accepted ==
          /\ IsNumber(text)
          /\ \A i \in 1..Len(text) : text[i] = "." => Len(text) - i <= 7
          /\ value.negative => value.whole = 0 /\ value.high = 0
                                 /\ value.low = 0
          /\ \/ value.whole < 1023
             \/ value.whole = 1023 /\ value.high = 0 /\ value.low = 0
    IN  /\ pid.call.state = "Intermediate" <=> text = <<>>
        /\ text # <<>> =>
             pid.call.state = IF accepted THEN "Acceptable" ELSE "Invalid"

\* The user has typed 1024, a number above the range, and the validator has
\* found it Invalid.
C23_Witness ==
  /\ pid.call.op = "rejected"
  /\ pid.call.text = <<"1", "0", "2", "4">>
  /\ pid.call.state = "Invalid"

\* C24: a set_values that changes both spinboxes emits values_changed twice,
\* first with the new multiplier and the old exponent and then with the new
\* multiplier and the new exponent; the last values_changed of any set_values
\* carries the values the two spinboxes hold; a set_values that changes
\* neither spinbox emits nothing.
C24_ValuesChanged ==
  [][pid'.call.op \in {"set_values", "textEdited"} =>
       LET new == [multiplier |-> pid'.multiplier, exponent |-> pid'.exponent]
           emitted == pid'.emitted
       IN  /\ pid'.multiplier # pid.multiplier /\ pid'.exponent # pid.exponent
                => emitted = <<[new EXCEPT !.exponent = pid.exponent], new>>
           /\ emitted # <<>> => emitted[Len(emitted)] = new
           /\ pid'.multiplier = pid.multiplier /\ pid'.exponent = pid.exponent
                => emitted = <<>>]_vars

\* set_values(5, 3) has changed both spinboxes and values_changed was emitted
\* with 5 and the exponent of before, then with 5 and 3.
C24_Witness ==
  /\ pid.call.op = "set_values"
  /\ pid.call.multiplier = 5
  /\ pid.call.exponent = 3
  /\ Len(pid.emitted) = 2
  /\ pid.emitted[1] = [multiplier |-> 5, exponent |-> 0]
  /\ pid.emitted[2] = [multiplier |-> 5, exponent |-> 3]

\* C25: while the line edit has the focus no set_values rewrites its text, so
\* the text the user types is never replaced; the text is recalculated from
\* the spinboxes only by a set_values without the focus and by
\* editingFinished, and right after editingFinished it is the rendering of
\* multiplier / 2^exponent for the values the spinboxes hold.
C25_TextWhileFocused ==
  [][/\ pid.focus /\ pid'.call.op = "set_values" => pid'.text = pid.text
     /\ pid'.call.op = "textEdited" => pid'.text = pid'.call.text
     /\ pid'.text # pid.text =>
          \/ pid'.call.op \in {"textEdited", "editingFinished"}
          \/ pid'.call.op = "set_values" /\ ~pid.focus
     /\ pid'.call.op = "editingFinished" =>
          Renders(pid'.text, pid'.multiplier, pid'.exponent,
                  IF pid'.multiplier * 10000 < 2 ^ pid'.exponent
                       /\ pid'.multiplier # 0
                    THEN 7 ELSE 5)]_vars

\* The user has typed 2.25 and, with the focus still on the line edit, the
\* program has called set_values(5, 3): the spinboxes hold 5 and 3 and the
\* text is still 2.25.
C25_Witness ==
  /\ pid.focus
  /\ pid.call.op = "set_values"
  /\ pid.multiplier = 5
  /\ pid.exponent = 3
  /\ pid.text = <<"2", ".", "2", "5">>

\* C26: given the full decimal notation of multiplier / 2^exponent, for a
\* multiplier in 0..1023 and an exponent in 0..18,
\* constant_lineedit_textEdited passes to set_values a multiplier in 0..1023
\* and an exponent in 0..18 whose quotient is the same value in lowest terms:
\* the multiplier is odd or the exponent is 0.
C26_LowestTerms ==
  pid.call.op = "textEdited" =>
    /\ pid.call.multiplier \in 0..1023
    /\ pid.call.exponent \in 0..18
    /\ pid.call.multiplier * 2 ^ pid.call.of.exponent
         = pid.call.of.multiplier * 2 ^ pid.call.exponent
    /\ pid.call.multiplier % 2 = 1 \/ pid.call.exponent = 0

\* The text 511.5, which is 1023 / 2, has given the multiplier 1023 and the
\* exponent 1.
C26_Witness ==
  /\ pid.call.op = "textEdited"
  /\ pid.call.of = [multiplier |-> 1023, exponent |-> 1]
  /\ pid.call.text = <<"5", "1", "1", ".", "5">>
  /\ pid.call.multiplier = 1023
  /\ pid.call.exponent = 1

\* ------------------------------------ properties of the variables, continued

\* C27: whenever jrk_get_variables has allocated an object, on return the
\* object is either held by the caller, and the call succeeded, or freed, and
\* the call failed, never both and never neither; the device is not asked
\* when the allocation failed and the buffer is not decoded when the read
\* failed.
C27_HandedOverOrFreed ==
  vcall.op = "jrk_get_variables" =>
    /\ vcall.allocated =>
         \/ variables # NULL /\ verror = NULL /\ ~vcall.freed
         \/ variables = NULL /\ verror # NULL /\ vcall.freed
    /\ ~vcall.allocated => variables = NULL /\ ~vcall.freed /\ verror # NULL
    /\ vcall.nomem => vcall.request = NULL /\ ~vcall.decoded
    /\ vcall.io_fails => vcall.request # NULL /\ ~vcall.decoded

\* The read from the device has failed: the object that was allocated is
\* freed, the caller holds an error and no object.
C27_Witness ==
  /\ vcall.op = "jrk_get_variables"
  /\ vcall.io_fails
  /\ vcall.allocated
  /\ vcall.freed
  /\ ~vcall.decoded
  /\ variables = NULL
  /\ verror # NULL

\* C28: jrk_variables_copy returns an error when the dest pointer is null;
\* given a dest pointer and a null source it returns no error and sets *dest
\* to NULL; given a dest pointer and a source it returns either an error,
\* with *dest NULL, or no error, with *dest an object whose every field
\* equals the source's.
C28_Copy ==
  vcopy.op = "jrk_variables_copy" =>
    /\ vcopy.dest_is_null => vcopy.error # NULL
    /\ ~vcopy.dest_is_null /\ vcopy.source = NULL =>
         vcopy.error = NULL /\ vcopy.written /\ vcopy.dest = NULL
    /\ ~vcopy.dest_is_null /\ vcopy.source # NULL =>
         \/ vcopy.error # NULL /\ vcopy.written /\ vcopy.dest = NULL
         \/ /\ vcopy.error = NULL /\ vcopy.written /\ vcopy.dest # NULL
            /\ DOMAIN vcopy.dest.at = DOMAIN vcopy.source.at
            /\ \A f \in DOMAIN vcopy.source.at :
                 vcopy.dest.at[f] = vcopy.source.at[f]

\* An object read from a device whose target is 65535 has been copied: the
\* copy has the same target.
C28_Witness ==
  /\ vcopy.op = "jrk_variables_copy"
  /\ vcopy.error = NULL
  /\ vcopy.source # NULL
  /\ vcopy.dest # NULL
  /\ vcopy.source.at["target"] = 65535
  /\ vcopy.dest.at["target"] = 65535

\* C29: for every object that jrk_get_variables has returned and every pin
\* number, jrk_variables_get_pin_state returns 0, whatever the device
\* reported.
C29_PinStateZero ==
  (ret # NULL /\ variables # NULL /\ vcall.op = "jrk_get_variables") =>
    \A pin \in PinInputs : ret.at.pin_state[pin] = 0

\* The pin states of an object read from a device whose digital readings
\* byte is 0x5A have been read: pin SDA reads high and its state is 0.
C29_Witness ==
  /\ ret # NULL /\ variables # NULL /\ vcall.op = "jrk_get_variables"
  /\ device["JRK_VAR_DIGITAL_READINGS"] = <<90>>
  /\ ret.at.digital_reading[JRK_PIN_NUM_SDA] = 1
  /\ ret.at.pin_state[JRK_PIN_NUM_SDA] = 0
  /\ ret.at.pin_state[255] = 0

\* ------------------------------ properties of the settings file, continued

\* C30: jrk_settings_to_string does not fail because of the value of a
\* setting.  A call that has its two pointers and enough memory succeeds; an
\* enumerated setting whose code has no short name, and a product that is
\* not recognized, is printed as its key followed by an empty value; the keys
\* printed and their order depend on the product alone.
C30_NoFailureByValue ==
  (call.op = "jrk_settings_to_string" /\ ~call.string_is_null
     /\ ~call.settings_is_null /\ ~call.nomem) =>
    /\ error = NULL
    /\ string # NULL
    /\ LET t == string.at
           ends == LineEnds(t)
           umc06a == settings["product"] = JRK_PRODUCT_UMC06A
           gated == IF umc06a THEN HardCurrentKeys ELSE SoftCurrentKeys
       IN  /\ Keys(t) = <<"product">>
                          \o SelectSeq(FieldOrder, LAMBDA f : f \notin gated)
           /\ \A k \in 1..Len(ends) :
                LET line == Line(t, ends, k)
                    f == line[1]
                IN  \/ IsComment(line)
                    \/ f = "product"
                         /\ (settings[f] \notin RecognizedProducts
                               => line = <<f, ": ">>)
                    \/ f # "product"
                         /\ (FieldFormat[f] = "enum"
                               /\ settings[f] + 1 \notin DOMAIN NameTable[f]
                               => line = <<f, ": ">>)

\* The text of a settings object without a product whose input mode is 7, a
\* code without a name, has been produced.
C30_Witness ==
  /\ call.op = "jrk_settings_to_string"
  /\ string # NULL /\ error = NULL
  /\ settings["product"] = 0
  /\ settings["input_mode"] = 7
  /\ \E k \in 1..Len(LineEnds(string.at)) :
       Line(string.at, LineEnds(string.at), k) = <<"input_mode", ": ">>

====
